---- MODULE Spec2Model ----
(***************************************************************************)
(* LMS report generator: the completion-classification and summary         *)
(* aggregation engine of lms_report_generator.py.                          *)
(*                                                                         *)
(* Conventions.  Text (column names, cells, last names) is a sequence of   *)
(* one-character strings, so that strip / rstrip / lower / regex search    *)
(* are computed character by character.  Percentages are integers counting *)
(* tenths of a percent (90.1 % is 901): the code rounds every percentage   *)
(* to one decimal before it is compared or stored.  Category labels and    *)
(* the final summary column headers are never taken apart by the code and  *)
(* are plain strings.                                                      *)
(***************************************************************************)
EXTENDS Integers, Sequences, FiniteSets, TLC

VARIABLES
    pc,                         \* the page shown: "no_file" until the upload(s), then "done";
                                \* "idle" while helpers are called directly
    uploaded_file,              \* the table pd.read_excel gives for the uploaded file
    df,                         \* df_raw as the processing leaves it (it adds columns in place)
    selected_grade,             \* sidebar grade filter: All or a grade of ALL_GRADES
    min_completion_percentage,  \* sidebar minimum completion percentage (whole percent)
    summary_df,                 \* summary returned by process_single_file_current_week
    detailed_df,                \* detail table returned by process_single_file_current_week
    messages,                   \* st.error / st.warning calls issued, in order
    call,                       \* a direct call of one helper function and its argument
    ret,                        \* what that helper returned
    df1, df2,                   \* Two-Week Comparison page: the two tables read, as the
                                \* processing leaves them
    week1_label, week2_label,   \* the two period labels typed on that page
    comparison_df,              \* the comparison table the page holds
    detailed_df1, detailed_df2, \* the two detail tables the page holds
    runs,                       \* the calls of process_single_file_current_week the page
                                \* made, in order: the table given and what was returned
    summary_reports,            \* database table summary_reports: its rows in rowid order
    summary_report_details,     \* database table summary_report_details, likewise
    detailed_reports,           \* database table detailed_reports, likewise
    sqlite_sequence,            \* the largest id AUTOINCREMENT has given in summary_reports
    clock,                      \* the database's CURRENT_TIMESTAMP, in whole seconds
    saves,                      \* per session: its save_report call (arguments, position,
                                \* summary_report_id, outcome)
    loaded,                     \* what the last load_report_data call returned
    listed,                     \* what the last get_saved_reports_metadata call returned
    lms_reports,                \* db_utils: database table reports, its rows in rowid order
    lms_clock,                  \* db_utils: that database's CURRENT_TIMESTAMP, in seconds
    lms_saved,                  \* db_utils: the save_report calls made so far, in order
    lms_got                     \* db_utils: the last method call made and what it
                                \* returned

report_vars == <<pc, uploaded_file, df, selected_grade, min_completion_percentage,
                 summary_df, detailed_df, messages>>

comparison_vars == <<df1, df2, week1_label, week2_label, comparison_df,
                     detailed_df1, detailed_df2, runs>>

store_vars == <<summary_reports, summary_report_details, detailed_reports,
                sqlite_sequence, clock, saves, loaded, listed>>

lms_vars == <<lms_reports, lms_clock, lms_saved, lms_got>>

vars == <<report_vars, call, ret, comparison_vars, store_vars, lms_vars>>

(***************************************************************************)
(* Bounds of the model                                                     *)
(***************************************************************************)
MaxCellLen == 3      \* helper calls: every cell text up to this length
MaxNameLen == 3      \* helper calls: every last name up to this length
MaxTotal == 16       \* helper calls: every lab-column count up to this
BigTotal == 2001     \* helper calls: one table with very many lab columns
MaxRows == 2         \* report runs: number of student rows in a table
MaxSessions == 2     \* report store: the sessions that each save one report
MaxClock == 1        \* report stores: the seconds a database clock advances
MaxSaves == 3        \* db_utils: the save_report calls made on one database

(***************************************************************************)
(* Text helpers                                                            *)
(***************************************************************************)
Digits == {"0", "1", "2", "3", "4", "5", "6", "7", "8", "9"}

Whitespace == {" "}

DigitVal == [d \in Digits |->
    CASE d = "0" -> 0 [] d = "1" -> 1 [] d = "2" -> 2 [] d = "3" -> 3 [] d = "4" -> 4
      [] d = "5" -> 5 [] d = "6" -> 6 [] d = "7" -> 7 [] d = "8" -> 8 [] d = "9" -> 9]

Uppers == <<"A", "B", "C", "D", "E", "F", "G", "H", "I", "J", "K", "L", "M",
            "N", "O", "P", "Q", "R", "S", "T", "U", "V", "W", "X", "Y", "Z">>

Lowers == <<"a", "b", "c", "d", "e", "f", "g", "h", "i", "j", "k", "l", "m",
            "n", "o", "p", "q", "r", "s", "t", "u", "v", "w", "x", "y", "z">>

\* str.lower(), one character
LowerChar(c) ==
    IF \E i \in 1..Len(Uppers) : Uppers[i] = c
    THEN Lowers[CHOOSE i \in 1..Len(Uppers) : Uppers[i] = c]
    ELSE c

\* str.lower()
Lower(s) == [i \in 1..Len(s) |-> LowerChar(s[i])]

\* Python's `sub in s`
Contains(s, sub) ==
    \E i \in 0..(Len(s) - Len(sub)) : SubSeq(s, i + 1, i + Len(sub)) = sub

\* number of leading characters of s that belong to S
LeadCount(s, S) ==
    IF \E i \in 1..Len(s) : s[i] \notin S
    THEN (CHOOSE i \in 1..Len(s) : s[i] \notin S /\ \A j \in 1..(i - 1) : s[j] \in S) - 1
    ELSE Len(s)

\* number of trailing characters of s that belong to S
TrailCount(s, S) ==
    IF \E i \in 1..Len(s) : s[i] \notin S
    THEN Len(s) - (CHOOSE i \in 1..Len(s) : s[i] \notin S /\ \A j \in (i + 1)..Len(s) : s[j] \in S)
    ELSE Len(s)

Drop(s, n) == SubSeq(s, n + 1, Len(s))

\* Series.str.strip(): surrounding whitespace removed
str_strip(s) == SubSeq(s, LeadCount(s, Whitespace) + 1, Len(s) - TrailCount(s, Whitespace))

\* Series.str.rstrip(chars): EVERY trailing character in chars removed
str_rstrip(s, chars) == SubSeq(s, 1, Len(s) - TrailCount(s, chars))

RECURSIVE DigitsValue(_)
\* decimal value of a run of digits
DigitsValue(ds) ==
    IF ds = <<>> THEN 0
    ELSE DigitsValue(SubSeq(ds, 1, Len(ds) - 1)) * 10 + DigitVal[ds[Len(ds)]]

RECURSIVE Pow10(_)
Pow10(n) == IF n = 0 THEN 1 ELSE 10 * Pow10(n - 1)

\* every text over the alphabet S of length at most n
TextsUpTo(S, n) == UNION {[1..k -> S] : k \in 0..n}

(***************************************************************************)
(* Numbers read from text.  A parsed number is mant / 10^scale; ok = FALSE *)
(* is pandas' NaN (errors='coerce').                                       *)
(***************************************************************************)
NaNValue == [ok |-> FALSE, mant |-> 0, scale |-> 0]

\* pd.to_numeric(text, errors='coerce') on one element.  pandas' float
\* parser skips leading and trailing whitespace, then reads digits with an
\* optional decimal point and needs at least one digit; anything left over
\* makes the element NaN.  (Signs, exponents and the inf/nan words need
\* characters outside the alphabets used here; "nan"/"NaN" come out NaN
\* either way.)
to_numeric(text) ==
    LET s1 == Drop(text, LeadCount(text, Whitespace))
        ip == LeadCount(s1, Digits)
        s2 == Drop(s1, ip)
        hasDot == s2 # <<>> /\ s2[1] = "."
        s3 == IF hasDot THEN Tail(s2) ELSE s2
        fp == IF hasDot THEN LeadCount(s3, Digits) ELSE 0
        s4 == Drop(s3, fp)
    IN  IF ip + fp > 0 /\ LeadCount(s4, Whitespace) = Len(s4)
        THEN [ok |-> TRUE,
              mant |-> DigitsValue(SubSeq(s1, 1, ip) \o SubSeq(s3, 1, fp)),
              scale |-> fp]
        ELSE NaNValue

\* convert_percentage_to_numeric without the str.strip() call
convert_percentage_to_numeric_no_strip(cell) ==
    to_numeric(str_rstrip(cell, {"%"}))

\* convert_percentage_to_numeric, one element of the series.  The cell is
\* given in its string form (astype(str)): an empty spreadsheet cell is "nan".
convert_percentage_to_numeric(cell) ==
    to_numeric(str_rstrip(str_strip(cell), {"%"}))

\* `value == 100` on a parsed cell
EqualsHundred(v) == v.ok /\ v.mant = 100 * Pow10(v.scale)

(***************************************************************************)
(* Grade extraction                                                        *)
(***************************************************************************)
ALL_GRADES == <<6, 7, 8, 9, 10, 11, 12>>

GradeSet == {ALL_GRADES[i] : i \in 1..Len(ALL_GRADES)}

\* str.extract(r'^(\d+)'): the run of digits the text starts with; <<>> is NaN
regex_leading_digits(s) == SubSeq(s, 1, LeadCount(s, Digits))

\* str.extract(r'(\d+)'): the first run of digits anywhere; <<>> is NaN
regex_first_digits(s) ==
    LET skipped == LeadCount(s, {s[i] : i \in 1..Len(s)} \ Digits)
    IN  regex_leading_digits(Drop(s, skipped))

\* the grade number before the range filter, without the fallback search
grade_number_leading_only(last_name) ==
    LET extracted == regex_leading_digits(last_name)
    IN  IF extracted = <<>> THEN -1 ELSE DigitsValue(extracted)

\* lines 33-37: extracted digits as an int, -1 when there are none
grade_number(last_name) ==
    LET first == regex_leading_digits(last_name)
        extracted == IF first = <<>> THEN regex_first_digits(last_name) ELSE first
    IN  IF extracted = <<>> THEN -1 ELSE DigitsValue(extracted)

\* extract_grade on a series of last names (a function from row index to
\* text): the result keeps only the rows whose number is within 6..12
extract_grade(last_name_series) ==
    LET kept == {i \in DOMAIN last_name_series :
                    /\ grade_number(last_name_series[i]) >= 6
                    /\ grade_number(last_name_series[i]) <= 12}
    IN  [i \in kept |-> grade_number(last_name_series[i])]

(***************************************************************************)
(* Categories                                                              *)
(***************************************************************************)
MoreThan90 == "#Students who completed more than 90%"
From75To90 == "#Students who completed 75 to 90%"
From55To75 == "#Students who completed 55 to 75%"
From35To55 == "#Students who completed 35 to 55%"
LessThan35 == "#Students who completed less than 35%"
TotalRow == "Total No Of Students"

CATEGORY_LABELS_ORDERED ==
    <<MoreThan90, From75To90, From55To75, From35To55, LessThan35, TotalRow>>

BandLabels == <<MoreThan90, From75To90, From55To75, From35To55, LessThan35>>

\* np.select(conditions, choices, default): the choice of the first
\* condition that is true
np_select(conditions, choices, default) ==
    IF \E i \in 1..Len(conditions) : conditions[i]
    THEN choices[CHOOSE i \in 1..Len(conditions) :
                    conditions[i] /\ \A j \in 1..(i - 1) : ~conditions[j]]
    ELSE default

\* categorize_completion_percentage with the boundaries in the upper band
categorize_completion_percentage_ge(p) ==
    np_select(<<p >= 900,
                (p >= 750) /\ (p < 900),
                (p >= 550) /\ (p < 750),
                (p >= 350) /\ (p < 550),
                p < 350>>,
              BandLabels, LessThan35)

\* categorize_completion_percentage, one element; p in tenths of a percent
categorize_completion_percentage(p) ==
    np_select(<<p > 900,
                (p > 750) /\ (p <= 900),
                (p > 550) /\ (p <= 750),
                (p > 350) /\ (p <= 550),
                p <= 350>>,
              BandLabels, LessThan35)

\* the if/elif chain inside calculate_program_completion
completion_category(perc) ==
    IF perc > 900 THEN MoreThan90
    ELSE IF (perc > 750) /\ (perc <= 900) THEN From75To90
    ELSE IF (perc > 550) /\ (perc <= 750) THEN From55To75
    ELSE IF (perc > 350) /\ (perc <= 550) THEN From35To55
    ELSE LessThan35

(***************************************************************************)
(* The other categorisations of the repository: process_excel.py and       *)
(* calculate_all.py.  Percentages are in tenths of a percent as above.     *)
(***************************************************************************)
\* process_excel.CATEGORY_LABELS: the row label of a category code
CATEGORY_LABELS(code) ==
    CASE code = ">90%" -> MoreThan90
      [] code = "75-90%" -> From75To90
      [] code = "55-75%" -> From55To75
      [] code = "35-55%" -> From35To55
      [] code = "<35%" -> LessThan35

\* process_excel.categorize_completion with every boundary in the lower band
categorize_completion_gt(pct) ==
    IF pct > 900 THEN ">90%"
    ELSE IF pct > 750 THEN "75-90%"
    ELSE IF pct > 550 THEN "55-75%"
    ELSE IF pct > 350 THEN "35-55%"
    ELSE "<35%"

\* process_excel.categorize_completion(pct)
categorize_completion(pct) ==
    IF pct > 900 THEN ">90%"
    ELSE IF pct >= 750 THEN "75-90%"
    ELSE IF pct >= 550 THEN "55-75%"
    ELSE IF pct >= 350 THEN "35-55%"
    ELSE "<35%"

\* calculate_all.py, lines 35-46: the category of one percentage
calculate_all_category(perc) ==
    IF perc >= 900 THEN "90-100%"
    ELSE IF perc >= 750 THEN "75-90%"
    ELSE IF perc >= 550 THEN "55-75%"
    ELSE IF perc >= 350 THEN "35-55%"
    ELSE "<35%"

(***************************************************************************)
(* Completion percentage                                                   *)
(***************************************************************************)
\* num / den rounded to the nearest integer, ties to the even neighbour
\* (numpy's rint)
RoundHalfEven(num, den) ==
    LET q == num \div den
        r == num % den
    IN  IF 2 * r < den THEN q
        ELSE IF 2 * r > den THEN q + 1
        ELSE IF q % 2 = 0 THEN q ELSE q + 1

\* the percentage truncated to one decimal instead of rounded
completion_percentage_truncated(completed_programs, total_programs) ==
    (1000 * completed_programs) \div total_programs

\* (completed_programs / total_programs) * 100, .round(1), in tenths.
\* Exact arithmetic; the float computation gives the same value for every
\* total below 80 and for BigTotal (for totals that are multiples of 80 a
\* few exact ties fall to the other neighbour).
completion_percentage(completed_programs, total_programs) ==
    RoundHalfEven(1000 * completed_programs, total_programs)

(***************************************************************************)
(* Tables.  A DataFrame with a RangeIndex is [columns, rows]: the column   *)
(* labels in order and, per row, the cells in column order.  A Series is a *)
(* function from row positions to values.                                  *)
(***************************************************************************)
FIRST_NAME_COL == <<"F", "i", "r", "s", "t", " ", "n", "a", "m", "e">>

LAST_NAME_COL == <<"L", "a", "s", "t", " ", "n", "a", "m", "e">>

LabMarker == <<"v", "i", "r", "t", "u", "a", "l", " ", "p", "r", "o", "g", "r", "a", "m",
               "m", "i", "n", "g", " ", "l", "a", "b">>

CalculatedCompletionCol == <<"C", "a", "l", "c", "u", "l", "a", "t", "e", "d", "_",
                             "C", "o", "m", "p", "l", "e", "t", "i", "o", "n">>

GradeCol == <<"G", "r", "a", "d", "e">>

\* the selectbox entry "All", held as a number that is no grade
All == 0

\* a missing value (NaN) in the numeric Grade column
NaN == -2

SeqToSet(s) == {s[i] : i \in 1..Len(s)}

HasColumn(frame, name) == \E j \in 1..Len(frame.columns) : frame.columns[j] = name

ColumnIndex(frame, name) == CHOOSE j \in 1..Len(frame.columns) : frame.columns[j] = name

\* frame[name]
Column(frame, name) ==
    [i \in 1..Len(frame.rows) |-> frame.rows[i][ColumnIndex(frame, name)]]

\* frame[name] = series with an existing column added to, not overwritten
SetColumn_accumulating(frame, name, series) ==
    LET value(i) == IF i \in DOMAIN series THEN series[i] ELSE NaN
        sum(old, new) == IF old = NaN \/ new = NaN THEN NaN ELSE old + new
    IN  IF HasColumn(frame, name)
        THEN [frame EXCEPT !.rows =
                [i \in 1..Len(frame.rows) |->
                    [frame.rows[i] EXCEPT ![ColumnIndex(frame, name)] = sum(@, value(i))]]]
        ELSE [columns |-> Append(frame.columns, name),
              rows |-> [i \in 1..Len(frame.rows) |-> Append(frame.rows[i], value(i))]]

\* frame[name] = series: aligned on the index, rows the series lacks get NaN;
\* an existing column is overwritten in place, a new one is appended
SetColumn(frame, name, series) ==
    LET value(i) == IF i \in DOMAIN series THEN series[i] ELSE NaN
    IN  IF HasColumn(frame, name)
        THEN [frame EXCEPT !.rows =
                [i \in 1..Len(frame.rows) |->
                    [frame.rows[i] EXCEPT ![ColumnIndex(frame, name)] = value(i)]]]
        ELSE [columns |-> Append(frame.columns, name),
              rows |-> [i \in 1..Len(frame.rows) |-> Append(frame.rows[i], value(i))]]

\* pd.DataFrame() as a detail table, and DataFrame.empty on one
EmptyDetail == <<>>

\* pd.DataFrame() as a summary table: index (the Student_Category column
\* after reset_index), count columns, and cells[row][column]
EmptyFrame == [index |-> <<>>, columns |-> <<>>, cells |-> <<>>]

IsEmpty(frame) == Len(frame.index) = 0 \/ Len(frame.columns) = 0

(***************************************************************************)
(* calculate_program_completion                                            *)
(***************************************************************************)
\* line 76 with every column taken for a lab column
vpl_columns_of_all(frame) == frame.columns

\* line 76: the columns whose lower-cased name contains the marker
vpl_columns_of(frame) ==
    SelectSeq(frame.columns, LAMBDA col : Contains(Lower(col), LabMarker))

\* line 94 with >= in place of ==
completed_programs_of_at_least(frame, i, vpl_columns) ==
    LET v(k) == convert_percentage_to_numeric(frame.rows[i][ColumnIndex(frame, vpl_columns[k])])
    IN  Cardinality({k \in 1..Len(vpl_columns) :
                        v(k).ok /\ v(k).mant >= 100 * Pow10(v(k).scale)})

\* lines 91-94: (vpl_data == 100).sum(axis=1) for row i
completed_programs_of(frame, i, vpl_columns) ==
    Cardinality({k \in 1..Len(vpl_columns) :
        EqualsHundred(convert_percentage_to_numeric(
            frame.rows[i][ColumnIndex(frame, vpl_columns[k])]))})

ErrorNoLabColumns ==
    [level |-> "error", text |-> "no Virtual Programming Lab columns", columns |-> <<>>]

\* calculate_program_completion(df): the detail table (one record per row,
\* idx is the row's index label) and the st.error calls made
calculate_program_completion(frame) ==
    LET vpl_columns == vpl_columns_of(frame)
        total_programs == Len(vpl_columns)
        record(i) ==
            LET completed_programs == completed_programs_of(frame, i, vpl_columns)
                perc == completion_percentage(completed_programs, total_programs)
            IN  [idx |-> i,
                 first_name |-> frame.rows[i][ColumnIndex(frame, FIRST_NAME_COL)],
                 last_name |-> frame.rows[i][ColumnIndex(frame, LAST_NAME_COL)],
                 completed_programs |-> completed_programs,
                 total_programs |-> total_programs,
                 completion_percentage |-> perc,
                 category |-> completion_category(perc)]
    IN  IF vpl_columns = <<>>
        THEN [detail |-> EmptyDetail, messages |-> <<ErrorNoLabColumns>>]
        ELSE [detail |-> [i \in 1..Len(frame.rows) |-> record(i)], messages |-> <<>>]

(***************************************************************************)
(* Summary tables (cross_tab).  Column keys are held as text: a grade      *)
(* column is keyed by the grade's decimal form, the total column by        *)
(* "Total".                                                                *)
(***************************************************************************)
GradeKey(grade) == ToString(grade)

TotalKey == "Total"

RECURSIVE SumSeq(_)
SumSeq(s) == IF s = <<>> THEN 0 ELSE s[1] + SumSeq(Tail(s))

Indices(n) == [i \in 1..n |-> i]

RowIndex(frame, label) == CHOOSE r \in 1..Len(frame.index) : frame.index[r] = label

KeyIndex(frame, key) == CHOOSE c \in 1..Len(frame.columns) : frame.columns[c] = key

\* the count at (row label, column key)
Cell(frame, label, key) == frame.cells[RowIndex(frame, label)][KeyIndex(frame, key)]

\* cross_tab[key] = 0 for a key that is not a column yet
AddZeroColumn(frame, key) ==
    [frame EXCEPT !.columns = Append(@, key),
                  !.cells = [r \in 1..Len(frame.index) |-> Append(frame.cells[r], 0)]]

\* cross_tab[keys]
SelectColumns(frame, keys) ==
    [frame EXCEPT !.columns = keys,
                  !.cells = [r \in 1..Len(frame.index) |->
                                [c \in 1..Len(keys) |-> frame.cells[r][KeyIndex(frame, keys[c])]]]]

\* cross_tab['Total'] = cross_tab.sum(axis=1)
AddRowSumColumn(frame, key) ==
    [frame EXCEPT !.columns = Append(@, key),
                  !.cells = [r \in 1..Len(frame.index) |->
                                Append(frame.cells[r], SumSeq(frame.cells[r]))]]

\* cross_tab.loc[label] = 0 for a label that is not a row yet
AddZeroRow(frame, label) ==
    [frame EXCEPT !.index = Append(@, label),
                  !.cells = Append(@, [c \in 1..Len(frame.columns) |-> 0])]

\* cross_tab.loc[label] = cross_tab.iloc[1:].sum(): the first row left out
AddColumnSumRow_skipping_first(frame, label) ==
    [frame EXCEPT !.index = Append(@, label),
                  !.cells = Append(@, [c \in 1..Len(frame.columns) |->
                                SumSeq([r \in 1..(Len(frame.index) - 1) |-> frame.cells[r + 1][c]])])]

\* cross_tab.loc[label] = cross_tab.sum()
AddColumnSumRow(frame, label) ==
    [frame EXCEPT !.index = Append(@, label),
                  !.cells = Append(@, [c \in 1..Len(frame.columns) |->
                                SumSeq([r \in 1..Len(frame.index) |-> frame.cells[r][c]])])]

\* the reindex call left out: the rows stay in the order they were added
Reindex_unordered(frame, labels) == frame

\* cross_tab.reindex(labels): the rows in the order of labels
Reindex(frame, labels) ==
    [frame EXCEPT !.index = labels,
                  !.cells = [r \in 1..Len(labels) |-> frame.cells[RowIndex(frame, labels[r])]]]

\* the band labels in the order pd.crosstab sorts its index (by text)
SortedBandLabels == <<From35To55, From55To75, From75To90, LessThan35, MoreThan90>>

\* pd.crosstab(index=categories, columns=grades) over the rows `kept`:
\* the observed categories and grades, each sorted, and their counts
crosstab(kept, category, grade) ==
    LET index == SelectSeq(SortedBandLabels,
                           LAMBDA c : \E k \in 1..Len(kept) : category[kept[k]] = c)
        grades == SelectSeq(ALL_GRADES,
                            LAMBDA g : \E k \in 1..Len(kept) : grade[kept[k]] = g)
    IN  [index |-> index,
         columns |-> [c \in 1..Len(grades) |-> GradeKey(grades[c])],
         cells |-> [r \in 1..Len(index) |-> [c \in 1..Len(grades) |->
                      Cardinality({k \in 1..Len(kept) :
                          category[kept[k]] = index[r] /\ grade[kept[k]] = grades[c]})]]]

RECURSIVE EnsureColumns(_, _)
\* lines 200-202: every key of keys that is no column yet is added with zeros
EnsureColumns(frame, keys) ==
    IF keys = <<>> THEN frame
    ELSE EnsureColumns(IF keys[1] \in SeqToSet(frame.columns) THEN frame
                       ELSE AddZeroColumn(frame, keys[1]), Tail(keys))

RECURSIVE EnsureRows(_, _)
\* lines 211-213: every label of labels that is no row yet is added with zeros
EnsureRows(frame, labels) ==
    IF labels = <<>> THEN frame
    ELSE EnsureRows(IF labels[1] \in SeqToSet(frame.index) THEN frame
                    ELSE AddZeroRow(frame, labels[1]), Tail(labels))

AllGradeKeys == [c \in 1..Len(ALL_GRADES) |-> GradeKey(ALL_GRADES[c])]

\* lines 225-231: the header a column key is renamed to
column_mapping(grade_filter, key) ==
    IF grade_filter # All
    THEN IF key = GradeKey(grade_filter) THEN "Grade " \o ToString(grade_filter) ELSE key
    ELSE IF \E g \in GradeSet : key = GradeKey(g)
         THEN "Grade " \o ToString(CHOOSE g \in GradeSet : key = GradeKey(g))
         ELSE key

\* lines 191-236 with the 'Total' column added whatever the grade filter
summary_from_crosstab_always_total(cross_tab, grade_filter) ==
    LET scoped == IF grade_filter # All
                  THEN SelectColumns(EnsureColumns(cross_tab, <<GradeKey(grade_filter)>>),
                                     <<GradeKey(grade_filter)>>)
                  ELSE SelectColumns(EnsureColumns(cross_tab, AllGradeKeys), AllGradeKeys)
        totalled == AddRowSumColumn(scoped, TotalKey)
        banded == EnsureRows(totalled, BandLabels)
        summed == AddColumnSumRow(banded, TotalRow)
        ordered == Reindex(summed, CATEGORY_LABELS_ORDERED)
    IN  [ordered EXCEPT !.columns =
            [c \in 1..Len(ordered.columns) |-> column_mapping(grade_filter, ordered.columns[c])]]

\* lines 191-236: the summary table built from the cross tabulation
summary_from_crosstab(cross_tab, grade_filter) ==
    LET scoped == IF grade_filter # All
                  THEN SelectColumns(EnsureColumns(cross_tab, <<GradeKey(grade_filter)>>),
                                     <<GradeKey(grade_filter)>>)
                  ELSE SelectColumns(EnsureColumns(cross_tab, AllGradeKeys), AllGradeKeys)
        totalled == IF grade_filter = All THEN AddRowSumColumn(scoped, TotalKey) ELSE scoped
        banded == EnsureRows(totalled, BandLabels)
        summed == AddColumnSumRow(banded, TotalRow)
        ordered == Reindex(summed, CATEGORY_LABELS_ORDERED)
    IN  [ordered EXCEPT !.columns =
            [c \in 1..Len(ordered.columns) |-> column_mapping(grade_filter, ordered.columns[c])]]

(***************************************************************************)
(* process_single_file_current_week                                        *)
(***************************************************************************)
\* line 143 with the message naming every required column
ErrorMissingColumns_all_required(missing_cols) ==
    [level |-> "error", text |-> "required columns are missing",
     columns |-> <<FIRST_NAME_COL, LAST_NAME_COL>>]

\* line 143: st.error naming the missing columns
ErrorMissingColumns(missing_cols) ==
    [level |-> "error", text |-> "required columns are missing", columns |-> missing_cols]

WarningNoStudents ==
    [level |-> "warning", text |-> "No students match the selected filters", columns |-> <<>>]

\* line 164 with > in place of >=
passes_min_completion_strict(perc, min_pct) == perc > 10 * min_pct

\* line 164: Calculated_Completion >= min_completion_percentage
passes_min_completion(perc, min_pct) == perc >= 10 * min_pct

\* line 159: (Grade >= 6) & (Grade <= 12); a comparison with NaN is false
grade_in_range(g) == g # NaN /\ g >= 6 /\ g <= 12

RECURSIVE Reversed(_)
Reversed(s) == IF s = <<>> THEN <<>> ELSE Append(Reversed(Tail(s)), Head(s))

\* lines 159-164 with the rows kept taken last row first
filtered_students_reversed(frame, grade_filter, min_pct) ==
    LET grade == Column(frame, GradeCol)
        perc == Column(frame, CalculatedCompletionCol)
    IN  Reversed(SelectSeq(Indices(Len(frame.rows)),
                  LAMBDA i : /\ grade_in_range(grade[i])
                             /\ (grade_filter # All => grade[i] = grade_filter)
                             /\ passes_min_completion(perc[i], min_pct)))

\* lines 159-164: the index labels of the rows kept, in table order
filtered_students(frame, grade_filter, min_pct) ==
    LET grade == Column(frame, GradeCol)
        perc == Column(frame, CalculatedCompletionCol)
    IN  SelectSeq(Indices(Len(frame.rows)),
                  LAMBDA i : /\ grade_in_range(grade[i])
                             /\ (grade_filter # All => grade[i] = grade_filter)
                             /\ passes_min_completion(perc[i], min_pct))

\* lines 158-238 (STEP 4 to the return): the rows kept by the filters, the
\* cross tabulation and the two tables, from the table df3 of STEP 3
filter_and_summarise(df3, initial, grade_filter, min_pct) ==
    LET kept == filtered_students(df3, grade_filter, min_pct)
        grade == Column(df3, GradeCol)
        perc == Column(df3, CalculatedCompletionCol)
        student_category == [i \in 1..Len(df3.rows) |-> categorize_completion_percentage(perc[i])]
        final_detailed_df ==
            [k \in 1..Len(kept) |->
                [idx |-> kept[k],
                 first_name |-> df3.rows[kept[k]][ColumnIndex(df3, FIRST_NAME_COL)],
                 last_name |-> df3.rows[kept[k]][ColumnIndex(df3, LAST_NAME_COL)],
                 completed_programs |-> initial.detail[kept[k]].completed_programs,
                 total_programs |-> initial.detail[kept[k]].total_programs,
                 completion_percentage |-> perc[kept[k]],
                 category |-> student_category[kept[k]]]]
    IN  IF kept = <<>>
        THEN [summary |-> EmptyFrame, detail |-> EmptyDetail, df |-> df3,
              messages |-> <<WarningNoStudents>>]
        ELSE [summary |-> summary_from_crosstab(crosstab(kept, student_category, grade),
                                                grade_filter),
              detail |-> final_detailed_df, df |-> df3, messages |-> <<>>]

\* lines 152-156 (STEP 2 and STEP 3): df with the Calculated_Completion and
\* Grade columns set
with_completion_and_grade(frame, initial) ==
    LET with_completion ==
            SetColumn(frame, CalculatedCompletionCol,
                      [i \in 1..Len(initial.detail) |-> initial.detail[i].completion_percentage])
    IN  SetColumn(with_completion, GradeCol,
                  extract_grade(Column(with_completion, LAST_NAME_COL)))

\* process_single_file_current_week(df, week_label, selected_grade,
\* min_completion_percentage): the two tables returned, the table df as the
\* call leaves it, and the messages shown
process_single_file_current_week(frame, grade_filter, min_pct) ==
    LET required_cols == <<FIRST_NAME_COL, LAST_NAME_COL>>
        missing_cols == SelectSeq(required_cols, LAMBDA col : ~HasColumn(frame, col))
        initial == calculate_program_completion(frame)
    IN  IF missing_cols # <<>>
        THEN [summary |-> EmptyFrame, detail |-> EmptyDetail, df |-> frame,
              messages |-> <<ErrorMissingColumns(missing_cols)>>]
        ELSE IF initial.detail = EmptyDetail
        THEN [summary |-> EmptyFrame, detail |-> EmptyDetail, df |-> frame,
              messages |-> initial.messages]
        \* df3 is the one table STEP 3 leaves; the later steps read it by name
        ELSE CHOOSE result \in {filter_and_summarise(df3, initial, grade_filter, min_pct) :
                                  df3 \in {with_completion_and_grade(frame, initial)}} : TRUE

(***************************************************************************)
(* process_two_files_comparison.  A comparison table keeps its column keys *)
(* as pairs <<header, period label>>.                                      *)
(***************************************************************************)
\* lines 257-263: the headers read from both summaries, in order
ComparisonHeaders == [i \in 1..7 |-> "Grade " \o ToString(i + 5)] \o <<"Total">>

\* summary[header] read as line 259 reads it: a KeyError when no column
\* has that header
HasHeader(summary, header) == header \in SeqToSet(summary.columns)

\* comparison_df[key] = summary[header]: aligned on the row labels of
\* comparison_df (a label the summary lacks gives NaN); a key that is a
\* column already is overwritten, a new key is appended as the last column
SetComparisonColumn(frame, key, summary, header) ==
    LET value(r) == IF frame.index[r] \in SeqToSet(summary.index)
                    THEN Cell(summary, frame.index[r], header) ELSE NaN
    IN  IF key \in SeqToSet(frame.columns)
        THEN [frame EXCEPT !.cells =
                [r \in 1..Len(frame.index) |->
                    [frame.cells[r] EXCEPT ![KeyIndex(frame, key)] = value(r)]]]
        ELSE [frame EXCEPT !.columns = Append(@, key),
                           !.cells = [r \in 1..Len(frame.index) |->
                                         Append(frame.cells[r], value(r))]]

RECURSIVE CompareColumns(_, _, _, _, _, _)
\* lines 257-263: for each header the column of week 1, then that of week 2
CompareColumns(frame, headers, summary1, summary2, label1, label2) ==
    IF headers = <<>> THEN frame
    ELSE CompareColumns(
            SetComparisonColumn(
                SetComparisonColumn(frame, <<headers[1], label1>>, summary1, headers[1]),
                <<headers[1], label2>>, summary2, headers[1]),
            Tail(headers), summary1, summary2, label1, label2)

\* lines 247-267 with the empty table returned only when both summaries
\* are empty
compare_summaries_when_both_empty(summary1, summary2, label1, label2) ==
    IF IsEmpty(summary1) /\ IsEmpty(summary2)
    THEN [raised |-> FALSE, comparison |-> EmptyFrame]
    ELSE IF \E i \in 1..Len(ComparisonHeaders) :
                ~HasHeader(summary1, ComparisonHeaders[i])
                    \/ ~HasHeader(summary2, ComparisonHeaders[i])
    THEN [raised |-> TRUE, comparison |-> EmptyFrame]
    ELSE [raised |-> FALSE,
          comparison |-> CompareColumns(
              [index |-> summary1.index, columns |-> <<>>,
               cells |-> [r \in 1..Len(summary1.index) |-> <<>>]],
              ComparisonHeaders, summary1, summary2, label1, label2)]

\* lines 247-267 reading only the headers that both summaries have
compare_summaries_shared_headers(summary1, summary2, label1, label2) ==
    IF IsEmpty(summary1) \/ IsEmpty(summary2)
    THEN [raised |-> FALSE, comparison |-> EmptyFrame]
    ELSE [raised |-> FALSE,
          comparison |-> CompareColumns(
              [index |-> summary1.index, columns |-> <<>>,
               cells |-> [r \in 1..Len(summary1.index) |-> <<>>]],
              SelectSeq(ComparisonHeaders,
                        LAMBDA h : HasHeader(summary1, h) /\ HasHeader(summary2, h)),
              summary1, summary2, label1, label2)]

\* lines 247-267, from the two summaries: the comparison table, or raised
\* when a header is no column of a summary (KeyError)
compare_summaries(summary1, summary2, label1, label2) ==
    IF IsEmpty(summary1) \/ IsEmpty(summary2)
    THEN [raised |-> FALSE, comparison |-> EmptyFrame]
    ELSE IF \E i \in 1..Len(ComparisonHeaders) :
                ~HasHeader(summary1, ComparisonHeaders[i])
                    \/ ~HasHeader(summary2, ComparisonHeaders[i])
    THEN [raised |-> TRUE, comparison |-> EmptyFrame]
    ELSE [raised |-> FALSE,
          comparison |-> CompareColumns(
              [index |-> summary1.index, columns |-> <<>>,
               cells |-> [r \in 1..Len(summary1.index) |-> <<>>]],
              ComparisonHeaders, summary1, summary2, label1, label2)]

\* process_two_files_comparison(df1, df2, week1_label, week2_label,
\* selected_grade, min_completion_percentage): the two runs of the single
\* week processing (what each returned and the table it leaves) and the
\* comparison made of their summaries
process_two_files_comparison(table1, table2, label1, label2, grade_filter, min_pct) ==
    LET run(table) == process_single_file_current_week(table, grade_filter, min_pct)
    IN  CHOOSE result \in
            {[run1 |-> r1, run2 |-> r2,
              compared |-> compare_summaries(r1.summary, r2.summary, label1, label2)] :
                r1 \in {run(table1)}, r2 \in {run(table2)}} : TRUE

(***************************************************************************)
(* db_manager: the report store.  A row of summary_report_details keeps    *)
(* its eight count columns as a function of the column name; a detail      *)
(* record's fields carry the database's column names.                      *)
(***************************************************************************)
Pad2(n) == IF n < 10 THEN "0" \o ToString(n) ELSE ToString(n)

\* report_date.strftime('%Y-%m-%d') for a date of a four-digit year
strftime(date) == ToString(date.year) \o "-" \o Pad2(date.month) \o "-" \o Pad2(date.day)

\* no date given (None)
NoDate == [year |-> 0, month |-> 0, day |-> 0]

\* str(selected_grade)
grade_text(grade) == IF grade = All THEN "All" ELSE ToString(grade)

\* line 200: expected_grade_cols
expected_grade_cols == [i \in 1..7 |-> "grade_" \o ToString(i + 5)]

\* the count columns of summary_report_details, in schema order
CountColumns == expected_grade_cols \o <<"total">>

\* lines 189-197: the database column a summary column is renamed to
save_column_name(col) ==
    IF \E g \in GradeSet : col = "Grade " \o ToString(g)
    THEN "grade_" \o ToString(CHOOSE g \in GradeSet : col = "Grade " \o ToString(g))
    ELSE IF col = "Total" THEN "total" ELSE col

\* lines 184-213: the rows to_sql appends to summary_report_details; a
\* count column the summary lacks is filled with 0
summary_rows_to_save(summary, summary_report_id) ==
    IF IsEmpty(summary) THEN <<>>
    ELSE [r \in 1..Len(summary.index) |->
            [summary_report_id |-> summary_report_id,
             student_category |-> summary.index[r],
             counts |-> [c \in SeqToSet(CountColumns) |->
                           IF \E k \in 1..Len(summary.columns) :
                                   save_column_name(summary.columns[k]) = c
                           THEN summary.cells[r][CHOOSE k \in 1..Len(summary.columns) :
                                                    save_column_name(summary.columns[k]) = c]
                           ELSE 0]]]

\* lines 218-229: the rows to_sql appends to detailed_reports (the six
\* schema columns and the report id; any other column is left out)
detail_rows_to_save(detail, summary_report_id) ==
    [k \in 1..Len(detail) |->
        [summary_report_id |-> summary_report_id,
         first_name |-> detail[k].first_name,
         last_name |-> detail[k].last_name,
         completed_programs |-> detail[k].completed_programs,
         total_programs |-> detail[k].total_programs,
         completion_percentage |-> detail[k].completion_percentage,
         category |-> detail[k].category]]

\* lines 176-179: the summary_reports row inserted, with the id and the
\* timestamp the database gives it
metadata_row(args, id, now) ==
    [id |-> id,
     report_date |-> strftime(args.report_date),
     week_label |-> args.week_label,
     selected_month |-> args.selected_month,
     selected_week |-> args.selected_week,
     selected_grade |-> grade_text(args.selected_grade),
     min_completion_percentage |-> args.min_completion_percentage,
     report_type |-> args.report_type,
     timestamp |-> now]

\* lines 313-318: the header a loaded column gets ('total' is in neither
\* rename and keeps its database name)
load_column_name(col) ==
    IF \E g \in GradeSet : col = "grade_" \o ToString(g)
    THEN "Grade " \o ToString(CHOOSE g \in GradeSet : col = "grade_" \o ToString(g))
    ELSE col

\* (None, None, None)
NotLoaded == [found |-> FALSE, meta |-> <<>>, summary |-> EmptyFrame, detail |-> <<>>]

\* load_report_data(summary_report_id) on the three tables as they are
load_report_data(summary_report_id, reports, details, detailed) ==
    LET meta == SelectSeq(reports, LAMBDA row : row.id = summary_report_id)
        rows == SelectSeq(details, LAMBDA row : row.summary_report_id = summary_report_id)
        students == SelectSeq(detailed, LAMBDA row : row.summary_report_id = summary_report_id)
    IN  IF meta = <<>> THEN NotLoaded
        ELSE [found |-> TRUE,
              meta |-> meta,
              summary |->
                  [index |-> [r \in 1..Len(rows) |-> rows[r].student_category],
                   columns |-> IF rows = <<>> THEN CountColumns
                               ELSE [i \in 1..Len(CountColumns) |->
                                        load_column_name(CountColumns[i])],
                   cells |-> [r \in 1..Len(rows) |->
                                [i \in 1..Len(CountColumns) |->
                                    rows[r].counts[CountColumns[i]]]]],
              detail |->
                  [k \in 1..Len(students) |->
                      [first_name |-> students[k].first_name,
                       last_name |-> students[k].last_name,
                       completed_programs |-> students[k].completed_programs,
                       total_programs |-> students[k].total_programs,
                       completion_percentage |-> students[k].completion_percentage,
                       category |-> students[k].category]]]

\* lines 260-269: the WHERE clause of get_saved_reports_metadata
matches_filters(row, report_date, selected_week) ==
    /\ (report_date # NoDate => row.report_date = strftime(report_date))
    /\ ((selected_week # "" /\ selected_week # "All") => row.selected_week = selected_week)

\* line 271: ORDER BY timestamp DESC leaves rows of one timestamp in any order
ordered_by_timestamp_desc(rows) ==
    \A i \in 1..Len(rows), j \in 1..Len(rows) :
        i < j => rows[i].timestamp >= rows[j].timestamp

(***************************************************************************)
(* Uploaded tables the model runs the report on                            *)
(***************************************************************************)
Jane == <<"J", "a", "n", "e">>

LabColumnPrefix == <<"V", "i", "r", "t", "u", "a", "l", " ", "p", "r", "o", "g", "r", "a", "m",
                     "m", "i", "n", "g", " ", "l", "a", "b", ":", " ", "E", "x">>

\* "Virtual programming lab: Ex<d>"
LabColumn(d) == Append(LabColumnPrefix, d)

UpperLabColumn == <<"V", "I", "R", "T", "U", "A", "L", " ", "P", "R", "O", "G", "R", "A", "M",
                    "M", "I", "N", "G", " ", "L", "A", "B", " ", "2">>

CourseTotalColumn == <<"C", "o", "u", "r", "s", "e", " ", "t", "o", "t", "a", "l", " ",
                       "(", "P", "e", "r", "c", "e", "n", "t", "a", "g", "e", ")">>

QuizColumn == <<"V", "i", "r", "t", "u", "a", "l", " ", "p", "r", "o", "g", "r", "a", "m",
                "m", "i", "n", "g", " ", "q", "u", "i", "z">>

LowerFirstNameColumn == <<"f", "i", "r", "s", "t", " ", "n", "a", "m", "e">>

Name9Doe == <<"9", "D", "o", "e">>
NameDoe9 == <<"D", "o", "e", "9">>
NameDoe == <<"D", "o", "e">>
Name13Smith == <<"1", "3", "S", "m", "i", "t", "h">>
Name5Jones == <<"5", "J", "o", "n", "e", "s">>
Name012Lee == <<"0", "1", "2", "L", "e", "e">>
NameLee6b12 == <<"L", "e", "e", "6", "b", "1", "2">>

Cell100 == <<"1", "0", "0">>
Cell100Pct == <<"1", "0", "0", ".", "0", " ", "%">>
Cell999 == <<"9", "9", ".", "9", "%">>
Cell101 == <<"1", "0", "1">>
CellZero == <<"0", ".", "0", " ", "%">>
CellNan == <<"n", "a", "n">>
CellEmpty == <<>>

\* one lab column: every kind of last name, completed or not
OneLabTables ==
    [columns |-> <<FIRST_NAME_COL, LAST_NAME_COL, LabColumn("1")>>,
     rowset |-> {<<Jane, n, c>> :
                    n \in {Name9Doe, NameDoe9, NameDoe, Name13Smith, Name5Jones},
                    c \in {Cell100Pct, Cell999}}]

\* two lab columns (one in upper case) around a column that is no lab
\* column and holds 100
TwoLabTables ==
    [columns |-> <<FIRST_NAME_COL, LAST_NAME_COL, LabColumn("1"), CourseTotalColumn,
                   UpperLabColumn>>,
     rowset |-> {<<Jane, n, a, Cell100, b>> :
                    n \in {Name9Doe, NameLee6b12},
                    a \in {Cell100, Cell101},
                    b \in {Cell100Pct, CellNan}}]

\* a row of a table with five lab columns: the first k are completed
FiveLabRow(n, k) == <<Jane, n>> \o [j \in 1..5 |-> IF j <= k THEN Cell100 ELSE CellZero]

\* five lab columns, of which a student completed the first k
FiveLabTables ==
    [columns |-> <<FIRST_NAME_COL, LAST_NAME_COL, LabColumn("1"), LabColumn("2"),
                   LabColumn("3"), LabColumn("4"), LabColumn("5")>>,
     rowset |-> {FiveLabRow(n, k) : n \in {Name9Doe, Name012Lee}, k \in 0..5}]

\* no lab column: "Virtual programming quiz" lacks the marker
NoLabTables ==
    [columns |-> <<FIRST_NAME_COL, LAST_NAME_COL, CourseTotalColumn, QuizColumn>>,
     rowset |-> {<<Jane, Name9Doe, Cell100, Cell100>>}]

\* identity columns missing: wrong case, absent, both absent
LowerFirstNameTables ==
    [columns |-> <<LowerFirstNameColumn, LAST_NAME_COL, LabColumn("1")>>,
     rowset |-> {<<Jane, Name9Doe, Cell100>>}]

NoLastNameTables ==
    [columns |-> <<FIRST_NAME_COL, LabColumn("1")>>,
     rowset |-> {<<Jane, Cell100>>}]

NoNameTables ==
    [columns |-> <<LabColumn("1")>>,
     rowset |-> {<<Cell100>>}]

TableShapes == {OneLabTables, TwoLabTables, FiveLabTables, NoLabTables,
                LowerFirstNameTables, NoLastNameTables, NoNameTables}

\* every table of a shape with at most MaxRows rows
Tables ==
    UNION {{[columns |-> shape.columns, rows |-> rows] :
                rows \in UNION {[1..n -> shape.rowset] : n \in 0..MaxRows}} :
           shape \in TableShapes}

NoTable == [columns |-> <<>>, rows |-> <<>>]

\* the tables uploaded on the Two-Week Comparison page: with students of
\* several grades and bands, with one student, with a student of no grade,
\* with no rows, without lab columns, without the 'Last name' column
ComparisonTables ==
    {[columns |-> FiveLabTables.columns,
      rows |-> <<FiveLabRow(Name9Doe, 2), FiveLabRow(Name012Lee, 0)>>],
     [columns |-> FiveLabTables.columns, rows |-> <<FiveLabRow(Name9Doe, 5)>>],
     [columns |-> TwoLabTables.columns,
      rows |-> <<<<Jane, NameLee6b12, Cell100, Cell100, Cell100Pct>>>>],
     [columns |-> OneLabTables.columns, rows |-> <<<<Jane, NameDoe, Cell100Pct>>>>],
     [columns |-> OneLabTables.columns, rows |-> <<>>],
     [columns |-> NoLabTables.columns, rows |-> <<<<Jane, Name9Doe, Cell100, Cell100>>>>],
     [columns |-> NoLastNameTables.columns, rows |-> <<<<Jane, Cell100>>>>]}

\* the period labels typed: the page's two defaults and a third text
WeekLabels == {"26-Jul", "02-Aug", "Week 1"}

\* the entries of the "Select Grade" box that are tried: "All", grades
\* that students of the tables have (6, 9, 12) and one that none has
GradeChoices == {All, 6, 7, 9, 12}

\* values typed into "Minimum Completion Percentage for Students" (0..100)
MinChoices == {0, 40}

(***************************************************************************)
(* Direct calls of the helper functions                                    *)
(***************************************************************************)
CellChars == {"1", "0", "9", ".", "%", " ", "a"}

NameChars == {"9", "1", "2", "5", "D"}

SampleCells == {Cell100, Cell100Pct, Cell999, Cell101, CellZero, CellNan, CellEmpty,
                <<"N", "a", "N">>, <<"8", "5", ".", "5", " ", "%">>,
                <<"7", "5", ".", "0", " ", "%">>, <<"1", "0", "0", "%", "%">>,
                <<" ", "1", "0", "0", "%", " ">>, <<"1", "0", "0", "%", " ", "%">>}

SampleNames == {Name9Doe, NameDoe9, NameDoe, Name13Smith, Name5Jones, Name012Lee,
                NameLee6b12}

NoCall == [fn |-> "none", p |-> 0, text |-> <<>>, completed |-> 0, total |-> 1]

CategorizeCalls == {[NoCall EXCEPT !.fn = "categorize", !.p = p] : p \in 0..1000}

ConvertCalls == {[NoCall EXCEPT !.fn = "convert", !.text = t] :
                    t \in TextsUpTo(CellChars, MaxCellLen) \cup SampleCells}

ExtractGradeCalls == {[NoCall EXCEPT !.fn = "extract_grade", !.text = t] :
                        t \in TextsUpTo(NameChars, MaxNameLen) \cup SampleNames}

PercentageCalls ==
    UNION {{[NoCall EXCEPT !.fn = "percentage", !.completed = c, !.total = t] : c \in 0..t} :
           t \in (1..MaxTotal) \cup {BigTotal}}

\* process_excel.categorize_completion and the loop of calculate_all.py,
\* called with every percentage of 0.0 .. 100.0
ExcelCategorizeCalls ==
    {[NoCall EXCEPT !.fn = "categorize_completion", !.p = p] : p \in 0..1000}

CalculateAllCalls ==
    {[NoCall EXCEPT !.fn = "calculate_all", !.p = p] : p \in 0..1000}

NoReturn == [done |-> FALSE, label |-> "", inline_label |-> "", number |-> NaNValue,
             grades |-> <<>>, pct |-> 0, code |-> ""]

(***************************************************************************)
(* The Single Week Report page                                             *)
(***************************************************************************)
\* the sessions that use the report store
Sessions == 1..MaxSessions

\* a session that has not called save_report yet
NoSaveCall ==
    [report_date |-> NoDate, week_label |-> "", selected_month |-> "", selected_week |-> "",
     selected_grade |-> All, min_completion_percentage |-> 0, report_type |-> "",
     summary_df |-> EmptyFrame, detailed_df |-> <<>>]

NotListed ==
    [shown |-> FALSE, report_date |-> NoDate, selected_week |-> "All", rows |-> <<>>,
     selected |-> 0]

\* the report store and its users before anything is saved
InitStore ==
    /\ summary_reports = <<>>
    /\ summary_report_details = <<>>
    /\ detailed_reports = <<>>
    /\ sqlite_sequence = 0
    /\ clock = 0
    /\ saves = [s \in Sessions |-> [pc |-> "idle", args |-> NoSaveCall, summary_report_id |-> 0]]
    /\ loaded = NotLoaded
    /\ listed = NotListed

\* no method of LMSDatabase called yet
NotGot == [fn |-> "none", week_label |-> "", found |-> FALSE, report |-> NoTable,
           labels |-> <<>>]

\* LMSDatabase() on a new file: the reports table is created empty
InitLMSDatabase ==
    /\ lms_reports = <<>>
    /\ lms_clock = 0
    /\ lms_saved = <<>>
    /\ lms_got = NotGot

\* the Two-Week Comparison page before both files are uploaded (lines 455-457)
NoComparison ==
    /\ df1 = NoTable /\ df2 = NoTable
    /\ week1_label = "26-Jul" /\ week2_label = "02-Aug"
    /\ comparison_df = EmptyFrame
    /\ detailed_df1 = EmptyDetail /\ detailed_df2 = EmptyDetail
    /\ runs = <<>>

Init ==
    /\ pc = "no_file"
    /\ uploaded_file = NoTable
    /\ df = NoTable
    /\ selected_grade = All
    /\ min_completion_percentage = 0
    /\ summary_df = EmptyFrame
    /\ detailed_df = EmptyDetail
    /\ messages = <<>>
    /\ call = NoCall
    /\ ret = NoReturn
    /\ NoComparison
    /\ InitStore
    /\ InitLMSDatabase

\* the "Select Grade" box is changed
SelectGrade ==
    /\ pc = "no_file"
    /\ \E g \in GradeChoices : selected_grade' = g
    /\ UNCHANGED <<pc, uploaded_file, df, min_completion_percentage, summary_df,
                   detailed_df, messages, call, ret, comparison_vars, store_vars, lms_vars>>

\* the minimum completion percentage is changed
SetMinCompletion ==
    /\ pc = "no_file"
    /\ \E m \in MinChoices : min_completion_percentage' = m
    /\ UNCHANGED <<pc, uploaded_file, df, selected_grade, summary_df,
                   detailed_df, messages, call, ret, comparison_vars, store_vars, lms_vars>>

\* a file is uploaded: the page reads it and processes it under the
\* filters set (a rerun after a filter change reads the file again, which
\* is this same computation under the new filters)
UploadFile ==
    /\ pc = "no_file"
    /\ \E table \in Tables :
         LET result == process_single_file_current_week(table, selected_grade,
                                                        min_completion_percentage)
         IN  /\ uploaded_file' = table
             /\ df' = result.df
             /\ summary_df' = result.summary
             /\ detailed_df' = result.detail
             /\ messages' = result.messages
    /\ pc' = "done"
    /\ UNCHANGED <<selected_grade, min_completion_percentage, call, ret, comparison_vars, store_vars,
                   lms_vars>>

Next == SelectGrade \/ SetMinCompletion \/ UploadFile

Spec == Init /\ [][Next]_vars

(***************************************************************************)
(* The Two-Week Comparison page                                            *)
(***************************************************************************)
\* st.error(f"An error occurred: {e}") of line 511
ErrorOccurred == [level |-> "error", text |-> "An error occurred", columns |-> <<>>]

\* st.success of line 469, given when the comparison table is not empty
ComparisonProcessed ==
    [level |-> "success", text |-> "Comparison report processed successfully!",
     columns |-> <<>>]

\* one call of process_single_file_current_week as the page made it
RunRecord(file, given, result) ==
    [file |-> file, given |-> given, summary |-> result.summary, detail |-> result.detail]

\* the two period labels are typed
EnterWeekLabels ==
    /\ pc = "no_file"
    /\ \E l1 \in WeekLabels, l2 \in WeekLabels : week1_label' = l1 /\ week2_label' = l2
    /\ UNCHANGED <<report_vars, call, ret, df1, df2, comparison_df, detailed_df1,
                   detailed_df2, runs, store_vars, lms_vars>>

\* both files are uploaded (lines 459-511): the comparison is made, then
\* each table, as the comparison left it, is processed again for its
\* detail table, and a comparison table that is not empty is announced
\* and shown; an exception ends the block with st.error
UploadTwoFiles ==
    /\ pc = "no_file"
    /\ \E table1 \in ComparisonTables, table2 \in ComparisonTables :
         \E first \in {process_two_files_comparison(table1, table2, week1_label,
                            week2_label, selected_grade, min_completion_percentage)} :
            IF first.compared.raised
            THEN /\ df1' = first.run1.df /\ df2' = first.run2.df
                 /\ comparison_df' = EmptyFrame
                 /\ detailed_df1' = EmptyDetail /\ detailed_df2' = EmptyDetail
                 /\ messages' = first.run1.messages \o first.run2.messages
                                    \o <<ErrorOccurred>>
                 /\ runs' = <<RunRecord(1, table1, first.run1),
                              RunRecord(2, table2, first.run2)>>
            ELSE \E again1 \in {process_single_file_current_week(first.run1.df,
                                    selected_grade, min_completion_percentage)},
                    again2 \in {process_single_file_current_week(first.run2.df,
                                    selected_grade, min_completion_percentage)} :
                 /\ df1' = again1.df /\ df2' = again2.df
                 /\ comparison_df' = first.compared.comparison
                 /\ detailed_df1' = again1.detail /\ detailed_df2' = again2.detail
                 /\ messages' = first.run1.messages \o first.run2.messages
                                    \o again1.messages \o again2.messages
                                    \o (IF IsEmpty(first.compared.comparison)
                                        THEN <<>> ELSE <<ComparisonProcessed>>)
                 /\ runs' = <<RunRecord(1, table1, first.run1),
                              RunRecord(2, table2, first.run2),
                              RunRecord(1, first.run1.df, again1),
                              RunRecord(2, first.run2.df, again2)>>
    /\ pc' = "done"
    /\ UNCHANGED <<uploaded_file, df, selected_grade, min_completion_percentage,
                   summary_df, detailed_df, call, ret, week1_label, week2_label,
                   store_vars, lms_vars>>

NextComparison == SelectGrade \/ SetMinCompletion \/ EnterWeekLabels \/ UploadTwoFiles

SpecComparison == Init /\ [][NextComparison]_vars

(***************************************************************************)
(* The report store as the pages use it: sessions that save a report with  *)
(* the two "Save ... to Database" buttons, and the View Saved Reports page *)
(***************************************************************************)
Date1 == [year |-> 2025, month |-> 8, day |-> 2]

Date2 == [year |-> 2025, month |-> 11, day |-> 30]

\* the students of two periods
SavedTable1 ==
    [columns |-> FiveLabTables.columns,
     rows |-> <<FiveLabRow(Name9Doe, 2), FiveLabRow(Name012Lee, 0)>>]

SavedTable2 == [columns |-> FiveLabTables.columns, rows |-> <<FiveLabRow(Name9Doe, 5)>>]

\* lines 390-400: the save_report call of the Single Week page
single_week_save(table, grade_filter, min_pct, date, week) ==
    [report_date |-> date,
     week_label |-> "Current_Week",
     selected_month |-> "All",
     selected_week |-> week,
     selected_grade |-> grade_filter,
     min_completion_percentage |-> min_pct,
     report_type |-> "Single Week Report",
     summary_df |-> process_single_file_current_week(table, grade_filter, min_pct).summary,
     detailed_df |-> process_single_file_current_week(table, grade_filter, min_pct).detail]

\* detailed_df.assign(Week=label)
assign_week(detail, label) == [k \in 1..Len(detail) |-> detail[k] @@ [Week |-> label]]

\* lines 497-507: the save_report call of the Two-Week Comparison page
\* (an empty summary, the two detail tables one after the other)
comparison_save(table1, table2, label1, label2, grade_filter, min_pct, date, week) ==
    [report_date |-> date,
     week_label |-> label1 \o " vs " \o label2,
     selected_month |-> "All",
     selected_week |-> week,
     selected_grade |-> grade_filter,
     min_completion_percentage |-> min_pct,
     report_type |-> "Two-Week Comparison",
     summary_df |-> EmptyFrame,
     detailed_df |->
        assign_week(process_single_file_current_week(table1, grade_filter, min_pct).detail,
                    label1)
        \o assign_week(process_single_file_current_week(table2, grade_filter, min_pct).detail,
                       label2)]

\* the reports saved: all grades, one grade, a report with no student
\* (the button is shown whatever the outcome), a comparison
SaveCalls ==
    {single_week_save(SavedTable1, All, 0, Date1, "Week 1"),
     single_week_save(SavedTable1, 9, 0, Date1, "All"),
     single_week_save(SavedTable1, 7, 0, Date2, "Week 1"),
     comparison_save(SavedTable1, SavedTable2, "26-Jul", "02-Aug", All, 0, Date2, "All")}

\* the summary_report_id a save_report call holds once its INSERT is done
\* with the id read from the database's counter when it is used, instead
\* of the cursor's lastrowid
current_report_id_shared(session, sequence) == sequence

\* line 181: cursor.lastrowid, kept in the call's local summary_report_id
current_report_id(session, sequence) == saves[session].summary_report_id

\* the store is followed until the View Saved Reports page is opened:
\* what the page shows is compared with the tables as they are at that time
StoreInUse == ~listed.shown

\* the database second passes
Tick ==
    /\ clock < MaxClock /\ StoreInUse
    /\ clock' = clock + 1
    /\ UNCHANGED <<report_vars, call, ret, comparison_vars, summary_reports,
                   summary_report_details, detailed_reports, sqlite_sequence, saves,
                   loaded, listed, lms_vars>>

\* lines 172-181: a session presses a save button; the connection is in
\* autocommit mode (isolation_level=None), so the INSERT is committed as
\* soon as it is executed.  Sessions are numbered in the order in which
\* their INSERT runs.
SaveInsertReport(s) ==
    /\ saves[s].pc = "idle" /\ s = sqlite_sequence + 1 /\ StoreInUse
    /\ \E args \in SaveCalls :
         /\ sqlite_sequence' = sqlite_sequence + 1
         /\ summary_reports' =
                Append(summary_reports, metadata_row(args, sqlite_sequence + 1, clock))
         /\ saves' = [saves EXCEPT ![s] = [pc |-> "inserted", args |-> args,
                                            summary_report_id |-> sqlite_sequence + 1]]
    /\ UNCHANGED <<report_vars, call, ret, comparison_vars, summary_report_details,
                   detailed_reports, clock, loaded, listed, lms_vars>>

\* lines 184-215: to_sql appends the summary rows
SaveSummaryDetails(s) ==
    /\ saves[s].pc = "inserted" /\ StoreInUse
    /\ summary_report_details' = summary_report_details \o
            summary_rows_to_save(saves[s].args.summary_df,
                                 current_report_id(s, sqlite_sequence))
    /\ saves' = [saves EXCEPT ![s].pc = "summary_saved"]
    /\ UNCHANGED <<report_vars, call, ret, comparison_vars, summary_reports,
                   detailed_reports, sqlite_sequence, clock, loaded, listed, lms_vars>>

\* lines 218-231: to_sql appends the detail rows
SaveDetailedReports(s) ==
    /\ saves[s].pc = "summary_saved" /\ StoreInUse
    /\ detailed_reports' = detailed_reports \o
            detail_rows_to_save(saves[s].args.detailed_df,
                                current_report_id(s, sqlite_sequence))
    /\ saves' = [saves EXCEPT ![s].pc = "detail_saved"]
    /\ UNCHANGED <<report_vars, call, ret, comparison_vars, summary_reports,
                   summary_report_details, sqlite_sequence, clock, loaded, listed, lms_vars>>

\* lines 233-235: commit (nothing is pending) and return the id
SaveReturn(s) ==
    /\ saves[s].pc = "detail_saved" /\ StoreInUse
    /\ saves' = [saves EXCEPT ![s].pc = "returned"]
    /\ UNCHANGED <<report_vars, call, ret, comparison_vars, summary_reports,
                   summary_report_details, detailed_reports, sqlite_sequence, clock,
                   loaded, listed, lms_vars>>

\* lines 236-240: a statement after the INSERT raises (the database is
\* locked or full, ...), possibly after to_sql has written some of its
\* rows; rollback() finds no open transaction and undoes nothing, and the
\* exception is raised again
SaveRaise(s) ==
    /\ saves[s].pc \in {"inserted", "summary_saved", "detail_saved"} /\ StoreInUse
    /\ \/ /\ saves[s].pc = "inserted"
          /\ \E n \in 0..Len(summary_rows_to_save(saves[s].args.summary_df, 0)) :
                summary_report_details' = summary_report_details \o
                    SubSeq(summary_rows_to_save(saves[s].args.summary_df,
                                                current_report_id(s, sqlite_sequence)), 1, n)
          /\ UNCHANGED detailed_reports
       \/ /\ saves[s].pc = "summary_saved"
          /\ \E n \in 0..Len(saves[s].args.detailed_df) :
                detailed_reports' = detailed_reports \o
                    SubSeq(detail_rows_to_save(saves[s].args.detailed_df,
                                               current_report_id(s, sqlite_sequence)), 1, n)
          /\ UNCHANGED summary_report_details
       \/ /\ saves[s].pc = "detail_saved"
          /\ UNCHANGED <<summary_report_details, detailed_reports>>
    /\ saves' = [saves EXCEPT ![s].pc = "raised"]
    /\ UNCHANGED <<report_vars, call, ret, comparison_vars, summary_reports,
                   sqlite_sequence, clock, loaded, listed, lms_vars>>

\* the filters of the View Saved Reports page (lines 412-413)
DateFilters == {NoDate, Date1, Date2}

WeekFilters == {"All", "Week 1"}

\* every order of the rows of a sequence
Orderings(rows) ==
    {[i \in 1..Len(rows) |-> rows[p[i]]] : p \in Permutations(1..Len(rows))}

\* the View Saved Reports page runs (lines 407-443): the metadata of the
\* reports matching the filters is listed, one of the listed ids is
\* selected and that report is loaded
ViewSavedReports ==
    /\ StoreInUse
    /\ \E date \in DateFilters, week \in WeekFilters :
         \E rows \in {order \in Orderings(SelectSeq(summary_reports,
                                    LAMBDA row : matches_filters(row, date, week))) :
                            ordered_by_timestamp_desc(order)} :
            IF rows = <<>>
            THEN /\ listed' = [shown |-> TRUE, report_date |-> date, selected_week |-> week,
                               rows |-> rows,
                               selected |-> 0]
                 /\ loaded' = NotLoaded
            ELSE \E k \in 1..Len(rows) :
                 /\ listed' = [shown |-> TRUE, report_date |-> date, selected_week |-> week,
                               rows |-> rows,
                               selected |-> rows[k].id]
                 /\ loaded' = load_report_data(rows[k].id, summary_reports,
                                               summary_report_details, detailed_reports)
    /\ UNCHANGED <<report_vars, call, ret, comparison_vars, summary_reports,
                   summary_report_details, detailed_reports, sqlite_sequence, clock, saves,
                   lms_vars>>

NextStore ==
    \/ Tick
    \/ \E s \in Sessions : \/ SaveInsertReport(s) \/ SaveSummaryDetails(s)
                            \/ SaveDetailedReports(s) \/ SaveReturn(s) \/ SaveRaise(s)
    \/ ViewSavedReports

SpecStore == Init /\ [][NextStore]_vars

(***************************************************************************)
(* The helper functions called on their own                                *)
(***************************************************************************)
InitUnits ==
    /\ pc = "idle"
    /\ uploaded_file = NoTable
    /\ df = NoTable
    /\ selected_grade = All
    /\ min_completion_percentage = 0
    /\ summary_df = EmptyFrame
    /\ detailed_df = EmptyDetail
    /\ messages = <<>>
    /\ call \in CategorizeCalls \cup ConvertCalls \cup ExtractGradeCalls \cup PercentageCalls
                \cup ExcelCategorizeCalls \cup CalculateAllCalls
    /\ ret = NoReturn
    /\ NoComparison
    /\ InitStore
    /\ InitLMSDatabase

CallCategorize ==
    /\ call.fn = "categorize" /\ ~ret.done
    /\ ret' = [ret EXCEPT !.done = TRUE,
                          !.label = categorize_completion_percentage(call.p),
                          !.inline_label = completion_category(call.p)]
    /\ UNCHANGED <<report_vars, call, comparison_vars, store_vars, lms_vars>>

CallConvert ==
    /\ call.fn = "convert" /\ ~ret.done
    /\ ret' = [ret EXCEPT !.done = TRUE,
                          !.number = convert_percentage_to_numeric(call.text)]
    /\ UNCHANGED <<report_vars, call, comparison_vars, store_vars, lms_vars>>

CallExtractGrade ==
    /\ call.fn = "extract_grade" /\ ~ret.done
    /\ ret' = [ret EXCEPT !.done = TRUE, !.grades = extract_grade(<<call.text>>)]
    /\ UNCHANGED <<report_vars, call, comparison_vars, store_vars, lms_vars>>

CallPercentage ==
    /\ call.fn = "percentage" /\ ~ret.done
    /\ ret' = [ret EXCEPT !.done = TRUE,
                          !.pct = completion_percentage(call.completed, call.total)]
    /\ UNCHANGED <<report_vars, call, comparison_vars, store_vars, lms_vars>>

\* process_excel: Category = categorize_completion(Completion %), and the
\* row of the summary it is counted in (lines 83-90)
CallCategorizeCompletion ==
    /\ call.fn = "categorize_completion" /\ ~ret.done
    /\ \E code \in {categorize_completion(call.p)} :
          ret' = [ret EXCEPT !.done = TRUE, !.code = code, !.label = CATEGORY_LABELS(code)]
    /\ UNCHANGED <<report_vars, call, comparison_vars, store_vars, lms_vars>>

\* calculate_all.py: the category given to one student's percentage
CallCalculateAll ==
    /\ call.fn = "calculate_all" /\ ~ret.done
    /\ ret' = [ret EXCEPT !.done = TRUE, !.code = calculate_all_category(call.p)]
    /\ UNCHANGED <<report_vars, call, comparison_vars, store_vars, lms_vars>>

NextUnits ==
    \/ CallCategorize \/ CallConvert \/ CallExtractGrade \/ CallPercentage
    \/ CallCategorizeCompletion \/ CallCalculateAll

SpecUnits == InitUnits /\ [][NextUnits]_vars

(***************************************************************************)
(* db_utils: the LMSDatabase store.  report_data holds the JSON text as    *)
(* the list of its objects, each object the list of its <<key, value>>     *)
(* members in order.  The tables saved hold counts, which JSON carries     *)
(* unchanged.                                                              *)
(***************************************************************************)
\* report_df.to_json(orient='records') (line 22): one object per row, its
\* keys the column names in column order; a table without rows gives []
to_json(frame) ==
    [i \in 1..Len(frame.rows) |->
        [j \in 1..Len(frame.columns) |-> <<frame.columns[j], frame.rows[i][j]>>]]

\* pd.read_json(text, orient='records') (line 32): the columns are the keys
\* of the objects, the rows their values; [] gives a table with no column
read_json(records) ==
    IF records = <<>>
    THEN [columns |-> <<>>, rows |-> <<>>]
    ELSE [columns |-> [j \in 1..Len(records[1]) |-> records[1][j][1]],
          rows |-> [i \in 1..Len(records) |->
                      [j \in 1..Len(records[i]) |-> records[i][j][2]]]]

\* lines 20-23 with a plain INSERT on a table without the UNIQUE constraint
insert_or_replace_appending(table, week_label, report_data, now) ==
    Append(table, [id |-> IF table = <<>> THEN 1 ELSE table[Len(table)].id + 1,
                   week_label |-> week_label,
                   report_data |-> report_data,
                   created_at |-> now])

\* INSERT OR REPLACE INTO reports (week_label, report_data) (lines 20-23):
\* the row that has the label (week_label is UNIQUE, line 13) is deleted,
\* then the new row is inserted with the next rowid and the current time
insert_or_replace(table, week_label, report_data, now) ==
    LET others == SelectSeq(table, LAMBDA row : row.week_label # week_label)
    IN  Append(others, [id |-> IF others = <<>> THEN 1 ELSE others[Len(others)].id + 1,
                        week_label |-> week_label,
                        report_data |-> report_data,
                        created_at |-> now])

\* line 37: ORDER BY created_at DESC leaves rows of one second in any order
ordered_by_created_at_desc(rows) ==
    \A i \in 1..Len(rows), j \in 1..Len(rows) :
        i < j => rows[i].created_at >= rows[j].created_at

\* the week labels reports are saved and asked under
LMSLabels == {"26-Jul", "02-Aug"}

\* the report tables saved: without rows, with one row, with two rows
ReportFrames ==
    {[columns |-> <<"Grade 9", "Total">>, rows |-> <<>>],
     [columns |-> <<"Grade 9", "Total">>, rows |-> <<<<1, 1>>>>],
     [columns |-> <<"Grade 9", "Total">>, rows |-> <<<<0, 2>>, <<2, 2>>>>]}

\* the database second passes
LMSTick ==
    /\ lms_clock < MaxClock
    /\ lms_clock' = lms_clock + 1
    /\ UNCHANGED <<report_vars, call, ret, comparison_vars, store_vars, lms_reports,
                   lms_saved, lms_got>>

\* LMSDatabase.save_report(week_label, report_df) (lines 18-23): one
\* statement, committed when the with block ends
LMSDatabase_save_report ==
    /\ Len(lms_saved) < MaxSaves
    /\ \E week_label \in LMSLabels, report_df \in ReportFrames :
         /\ lms_reports' = insert_or_replace(lms_reports, week_label, to_json(report_df),
                                             lms_clock)
         /\ lms_saved' = Append(lms_saved, [week_label |-> week_label,
                                             report_df |-> report_df])
         /\ lms_got' = [NotGot EXCEPT !.fn = "save_report", !.week_label = week_label]
    /\ UNCHANGED <<report_vars, call, ret, comparison_vars, store_vars, lms_clock>>

\* LMSDatabase.get_report(week_label) (lines 25-32): the first row selected
\* read back as a table, or None
LMSDatabase_get_report ==
    /\ \E week_label \in LMSLabels :
         LET result == SelectSeq(lms_reports, LAMBDA row : row.week_label = week_label)
         IN  lms_got' = [fn |-> "get_report", week_label |-> week_label,
                         found |-> result # <<>>,
                         report |-> IF result # <<>> THEN read_json(result[1].report_data)
                                    ELSE NoTable,
                         labels |-> <<>>]
    /\ UNCHANGED <<report_vars, call, ret, comparison_vars, store_vars, lms_reports,
                   lms_clock, lms_saved>>

\* LMSDatabase.get_previous_reports() (lines 34-39)
LMSDatabase_get_previous_reports ==
    /\ \E rows \in {order \in Orderings(lms_reports) : ordered_by_created_at_desc(order)} :
         lms_got' = [fn |-> "get_previous_reports", week_label |-> "", found |-> FALSE,
                     report |-> NoTable,
                     labels |-> [i \in 1..Len(rows) |-> rows[i].week_label]]
    /\ UNCHANGED <<report_vars, call, ret, comparison_vars, store_vars, lms_reports,
                   lms_clock, lms_saved>>

NextLMSDatabase ==
    \/ LMSTick
    \/ LMSDatabase_save_report
    \/ LMSDatabase_get_report
    \/ LMSDatabase_get_previous_reports

SpecLMSDatabase == Init /\ [][NextLMSDatabase]_vars

(***************************************************************************)
(* Properties                                                              *)
(***************************************************************************)
\* the band the specification assigns to a percentage (tenths of a percent)
ExpectedBand(p) ==
    CASE p > 900 -> MoreThan90
      [] p > 750 /\ p <= 900 -> From75To90
      [] p > 550 /\ p <= 750 -> From55To75
      [] p > 350 /\ p <= 550 -> From35To55
      [] p <= 350 -> LessThan35

\* C1: for every completion percentage, categorize_completion_percentage
\* (and the chain inside calculate_program_completion) returns one of the
\* five band labels, the one of the band rule; the boundary values 90, 75,
\* 55 and 35 fall into the lower band and 90.1 into the top band.
C1_CategorizeBands ==
    (call.fn = "categorize" /\ ret.done) =>
        /\ ret.label \in {MoreThan90, From75To90, From55To75, From35To55, LessThan35}
        /\ ret.label = ExpectedBand(call.p)
        /\ ret.inline_label = ExpectedBand(call.p)
        /\ (call.p = 900 => ret.label = From75To90)
        /\ (call.p = 901 => ret.label = MoreThan90)
        /\ (call.p = 750 => ret.label = From55To75)
        /\ (call.p = 550 => ret.label = From35To55)
        /\ (call.p = 350 => ret.label = LessThan35)

C1_Witness ==
    call.fn = "categorize" /\ ret.done /\ call.p = 900 /\ ret.label = From75To90

\* the cell texts of the uploaded tables that denote exactly 100
CompletedTexts == {Cell100, Cell100Pct}

\* the positions of the lab columns of a table
LabPositions(table) ==
    {j \in 1..Len(table.columns) : Contains(Lower(table.columns[j]), LabMarker)}

\* C2: in every student record, completed_count is the number of lab cells
\* of the row whose value is exactly 100 (99.9, 101, 0.0 and unparsable
\* cells never count, nor does a 100 outside the lab columns), while
\* total_count counts every lab column, unparsable cells included.
C2_CompletedIffExactlyHundred ==
    (pc = "done" /\ detailed_df # EmptyDetail) =>
        LET labs == LabPositions(uploaded_file)
        IN  \A k \in 1..Len(detailed_df) :
                LET row == uploaded_file.rows[detailed_df[k].idx]
                IN  /\ detailed_df[k].completed_programs =
                           Cardinality({j \in labs : row[j] \in CompletedTexts})
                    /\ detailed_df[k].total_programs = Cardinality(labs)

C2_Witness ==
    /\ pc = "done"
    /\ \E k \in 1..Len(detailed_df) :
          /\ uploaded_file.rows[detailed_df[k].idx] =
                 <<Jane, Name9Doe, Cell101, Cell100, CellNan>>
          /\ detailed_df[k].completed_programs = 0
          /\ detailed_df[k].total_programs = 2

AllIn(s, lo, hi, S) == \A i \in lo..hi : s[i] \in S

\* the numbers <<mant, scale>> that a text of digits with at most one
\* decimal point denotes
Denoted(u) ==
    {<<DigitsValue(SelectSeq(u, LAMBDA ch : ch # ".")),
       IF d < Len(u) THEN Len(u) - d - 1 ELSE 0>> :
        d \in {d \in 0..Len(u) :
                 /\ Len(u) > (IF d < Len(u) THEN 1 ELSE 0)
                 /\ AllIn(u, 1, d, Digits)
                 /\ (d < Len(u) => u[d + 1] = "." /\ AllIn(u, d + 2, Len(u), Digits))}}

\* the numbers a cell text stands for when it is: whitespace, a number,
\* whitespace, at most max_percent '%' characters, whitespace
CellNumbers(text, max_percent) ==
    UNION {IF /\ lo <= hi
              /\ AllIn(text, 1, lo - 1, Whitespace)
              /\ \E x \in hi..Len(text), y \in hi..Len(text) :
                    /\ x <= y /\ y - x <= max_percent
                    /\ AllIn(text, hi + 1, x, Whitespace)
                    /\ AllIn(text, x + 1, y, {"%"})
                    /\ AllIn(text, y + 1, Len(text), Whitespace)
           THEN Denoted(SubSeq(text, lo, hi)) ELSE {} :
            lo \in 1..(Len(text) + 1), hi \in 0..Len(text)}

\* the result of a conversion agrees with a set of admissible numbers
ConvertedAs(number, admissible) ==
    IF admissible = {} THEN ~number.ok
    ELSE number.ok /\ \E n \in admissible :
            number.mant * Pow10(n[2]) = n[1] * Pow10(number.scale)

\* C3 as stated: only a single trailing '%' is removed, and a cell that is
\* not a number after that is missing.
C3_SinglePercentStripped ==
    (call.fn = "convert" /\ ret.done) =>
        ConvertedAs(ret.number, CellNumbers(call.text, 1))

\* C3 amended: the conversion strips surrounding whitespace and every
\* trailing '%' character and parses the rest as a number; a cell that is
\* not a number after that is missing.  "100.0 %", "100" and "100%%" give
\* 100, "99.9%" gives 99.9, "NaN" and the empty text are missing.
C3_AllPercentsStripped ==
    (call.fn = "convert" /\ ret.done) =>
        /\ ConvertedAs(ret.number, CellNumbers(call.text, Len(call.text)))
        /\ (call.text \in {Cell100Pct, Cell100, <<"1", "0", "0", "%", "%">>}
                => EqualsHundred(ret.number))
        /\ (call.text = Cell999 => ret.number = [ok |-> TRUE, mant |-> 999, scale |-> 1])
        /\ (call.text \in {<<"N", "a", "N">>, CellNan, CellEmpty} => ~ret.number.ok)

C3_Witness ==
    /\ call.fn = "convert" /\ ret.done
    /\ call.text = <<"1", "0", "0", "%", "%">>
    /\ EqualsHundred(ret.number)

\* C4: every student record of a run carries the same total_count, the
\* number of columns whose lower-cased name contains "virtual programming
\* lab", and 0 <= completed_count <= total_count.
C4_TotalCountIsLabColumns ==
    (pc = "done" /\ detailed_df # EmptyDetail) =>
        LET named == Cardinality({j \in 1..Len(uploaded_file.columns) :
                        \/ uploaded_file.columns[j] = UpperLabColumn
                        \/ \E d \in Digits : uploaded_file.columns[j] = LabColumn(d)})
            marked == Cardinality(LabPositions(uploaded_file))
        IN  \A k \in 1..Len(detailed_df) :
                /\ detailed_df[k].total_programs = named
                /\ detailed_df[k].total_programs = marked
                /\ detailed_df[k].total_programs = detailed_df[1].total_programs
                /\ 0 <= detailed_df[k].completed_programs
                /\ detailed_df[k].completed_programs <= detailed_df[k].total_programs

C4_Witness ==
    /\ pc = "done"
    /\ uploaded_file.columns = TwoLabTables.columns
    /\ Len(detailed_df) = 2
    /\ detailed_df[1].total_programs = 2 /\ detailed_df[2].total_programs = 2
    /\ detailed_df[1].completed_programs = 2 /\ detailed_df[2].completed_programs = 0

\* pct (tenths) is 100 * completed / total rounded to the nearest tenth
NearestTenth(pct, completed, total) ==
    LET diff == pct * total - 1000 * completed
    IN  2 * diff <= total /\ -2 * diff <= total

\* C5 as stated: the percentage is the rounded quotient, within [0, 100],
\* 100.0 exactly when completed = total and 0.0 exactly when completed = 0.
C5_RoundedExactEnds ==
    (call.fn = "percentage" /\ ret.done) =>
        /\ NearestTenth(ret.pct, call.completed, call.total)
        /\ 0 <= ret.pct /\ ret.pct <= 1000
        /\ (ret.pct = 1000 <=> call.completed = call.total)
        /\ (ret.pct = 0 <=> call.completed = 0)

\* C5 amended: the percentage is the rounded quotient, within [0, 100]; it
\* is 100.0 when completed = total and 0.0 when completed = 0, and only
\* then as long as the table has fewer than 2000 lab columns.
C5_RoundedEnds ==
    (call.fn = "percentage" /\ ret.done) =>
        /\ NearestTenth(ret.pct, call.completed, call.total)
        /\ 0 <= ret.pct /\ ret.pct <= 1000
        /\ (call.completed = call.total => ret.pct = 1000)
        /\ (call.completed = 0 => ret.pct = 0)
        /\ (call.total < 2000 => (ret.pct = 1000 => call.completed = call.total))
        /\ (call.total < 2000 => (ret.pct = 0 => call.completed = 0))

C5_Witness ==
    /\ call.fn = "percentage" /\ ret.done
    /\ call.total = 3 /\ call.completed = 2 /\ ret.pct = 667

\* the grade the specification derives from a last name: the run of
\* digits it starts with, else the first run of digits in it, kept only
\* within 6..12; NaN when there is none
ExpectedGrade(name) ==
    IF \A i \in 1..Len(name) : name[i] \notin Digits THEN NaN
    ELSE LET first == CHOOSE p \in 1..Len(name) :
                        name[p] \in Digits /\ \A j \in 1..(p - 1) : name[j] \notin Digits
             last == CHOOSE q \in first..Len(name) :
                        AllIn(name, first, q, Digits) /\ (q < Len(name) => name[q + 1] \notin Digits)
             number == DigitsValue(SubSeq(name, first, last))
         IN  IF number >= 6 /\ number <= 12 THEN number ELSE NaN

\* every row of the uploaded table: its grade and its completion percentage
RowFacts ==
    LET labs == LabPositions(uploaded_file)
        total == Cardinality(labs)
        last_name == ColumnIndex(uploaded_file, LAST_NAME_COL)
    IN  [i \in 1..Len(uploaded_file.rows) |->
            [grade |-> ExpectedGrade(uploaded_file.rows[i][last_name]),
             pct |-> completion_percentage(
                        Cardinality({j \in labs : uploaded_file.rows[i][j] \in CompletedTexts}),
                        total)]]

\* the rows that every filter retains
Retained(facts) ==
    {i \in DOMAIN facts :
        /\ facts[i].grade # NaN
        /\ (selected_grade = All \/ facts[i].grade = selected_grade)
        /\ facts[i].pct >= 10 * min_completion_percentage}

\* the grades that have a column in the summary
GradesInScope == IF selected_grade = All THEN 6..12 ELSE {selected_grade}

GradeHeader(g) == "Grade " \o ToString(g)

HasSummary == pc = "done" /\ ~IsEmpty(summary_df)

\* C6: every cell (band, grade in scope) of the summary is the number of
\* rows whose grade is that grade, whose percentage is at least the
\* minimum (a row exactly at the minimum is retained), that pass the grade
\* filter and whose percentage falls in that band.
C6_CellsCountRetainedRows ==
    HasSummary =>
        LET facts == RowFacts
            retained == Retained(facts)
        IN  \A b \in 1..Len(BandLabels), g \in GradesInScope :
                Cell(summary_df, BandLabels[b], GradeHeader(g)) =
                    Cardinality({i \in retained :
                        facts[i].grade = g /\ ExpectedBand(facts[i].pct) = BandLabels[b]})

C6_Witness ==
    /\ HasSummary
    /\ min_completion_percentage = 40 /\ selected_grade = All
    /\ Len(uploaded_file.rows) = 2
    /\ RowFacts[1].pct = 400 /\ RowFacts[2].pct = 200
    /\ Cell(summary_df, From35To55, "Grade 9") = 1
    /\ Cell(summary_df, LessThan35, "Grade 9") = 0

\* C7: in a non-empty summary the 'Total No Of Students' cell of every
\* column is the sum of the five band cells of the column, which for a
\* grade column is the number of retained students of the grade; with all
\* grades, the 'Total' cell of every row is the sum of its seven grade cells.
C7_TotalsAreSums ==
    HasSummary =>
        /\ \A c \in 1..Len(summary_df.columns) :
              Cell(summary_df, TotalRow, summary_df.columns[c]) =
                  SumSeq([b \in 1..Len(BandLabels) |->
                            Cell(summary_df, BandLabels[b], summary_df.columns[c])])
        /\ LET grades == Column(df, GradeCol)
           IN  \A g \in GradesInScope :
                  Cell(summary_df, TotalRow, GradeHeader(g)) =
                      Cardinality({k \in 1..Len(detailed_df) : grades[detailed_df[k].idx] = g})
        /\ selected_grade = All =>
              \A r \in 1..Len(summary_df.index) :
                  Cell(summary_df, summary_df.index[r], "Total") =
                      SumSeq([c \in 1..7 |->
                                Cell(summary_df, summary_df.index[r], GradeHeader(c + 5))])

C7_Witness ==
    /\ HasSummary /\ selected_grade = All
    /\ Cell(summary_df, TotalRow, "Grade 9") = 1
    /\ Cell(summary_df, TotalRow, "Grade 6") = 1
    /\ Cell(summary_df, TotalRow, "Total") = 2
    /\ Cell(summary_df, MoreThan90, "Total") = 2

\* C8: a non-empty summary has exactly six rows in the fixed order, and a
\* band without any retained student is present with zero in every cell.
C8_SixRowsInOrder ==
    HasSummary =>
        /\ summary_df.index = <<"#Students who completed more than 90%",
                                "#Students who completed 75 to 90%",
                                "#Students who completed 55 to 75%",
                                "#Students who completed 35 to 55%",
                                "#Students who completed less than 35%",
                                "Total No Of Students">>
        /\ Len(summary_df.cells) = 6
        /\ \A r \in 1..5 :
              (\A k \in 1..Len(detailed_df) : detailed_df[k].category # summary_df.index[r])
                  => \A c \in 1..Len(summary_df.columns) : summary_df.cells[r][c] = 0

C8_Witness ==
    /\ HasSummary
    /\ \E k \in 1..Len(detailed_df) : detailed_df[k].category = From75To90
    /\ \E k \in 1..Len(detailed_df) : detailed_df[k].category = LessThan35
    /\ \A k \in 1..Len(detailed_df) : detailed_df[k].category # MoreThan90
    /\ summary_df.index[1] = MoreThan90
    /\ \A c \in 1..Len(summary_df.columns) : summary_df.cells[1][c] = 0

\* C9: with a single grade selected the only count column of a non-empty
\* summary is 'Grade g' and there is no 'Total' column; with all grades
\* the count columns are 'Grade 6' .. 'Grade 12' in ascending order and
\* then 'Total', a grade without retained student being present with zeros.
C9_ColumnScope ==
    HasSummary =>
        LET facts == RowFacts
            retained == Retained(facts)
        IN  /\ selected_grade # All => summary_df.columns = <<GradeHeader(selected_grade)>>
            /\ selected_grade = 9 => summary_df.columns = <<"Grade 9">>
            /\ selected_grade = All =>
                  summary_df.columns = <<"Grade 6", "Grade 7", "Grade 8", "Grade 9",
                                         "Grade 10", "Grade 11", "Grade 12", "Total">>
            /\ \A r \in 1..Len(summary_df.index) :
                  Len(summary_df.cells[r]) = Len(summary_df.columns)
            /\ \A g \in GradesInScope :
                  (\A i \in retained : facts[i].grade # g)
                      => \A r \in 1..Len(summary_df.index) :
                            Cell(summary_df, summary_df.index[r], GradeHeader(g)) = 0

C9_Witness ==
    /\ HasSummary /\ selected_grade = All
    /\ \A i \in Retained(RowFacts) : RowFacts[i].grade = 12
    /\ Len(summary_df.columns) = 8
    /\ Cell(summary_df, TotalRow, "Grade 12") = 2
    /\ Cell(summary_df, TotalRow, "Grade 9") = 0

\* C10: a row's grade is the run of digits its last name starts with, else
\* the first run of digits in it; a row without digits, or whose number is
\* outside 6..12, has no grade and is in neither the detail table nor the
\* summary, whose counts are those of the rows with a grade.  '9Doe' and
\* 'Doe9' are grade 9; 'Doe', '13Smith' and '5Jones' are excluded.
C10_GradeFromLastName ==
    (pc = "done" /\ HasColumn(df, GradeCol)) =>
        LET facts == RowFacts
            retained == Retained(facts)
            grades == Column(df, GradeCol)
            last_name == ColumnIndex(uploaded_file, LAST_NAME_COL)
        IN  /\ \A i \in 1..Len(uploaded_file.rows) :
                  LET name == uploaded_file.rows[i][last_name]
                  IN  /\ grades[i] = facts[i].grade
                      /\ (name \in {Name9Doe, NameDoe9} => grades[i] = 9)
                      /\ (name \in {NameDoe, Name13Smith, Name5Jones} => grades[i] = NaN)
                      /\ (grades[i] = NaN =>
                            \A k \in 1..Len(detailed_df) : detailed_df[k].idx # i)
                      /\ (i \in retained =>
                            \E k \in 1..Len(detailed_df) : detailed_df[k].idx = i)
            /\ ~IsEmpty(summary_df) =>
                  \A g \in GradesInScope :
                      Cell(summary_df, TotalRow, GradeHeader(g)) =
                          Cardinality({i \in retained : facts[i].grade = g})

C10_Witness ==
    /\ HasSummary /\ selected_grade = All
    /\ Len(uploaded_file.rows) = 2
    /\ uploaded_file.rows[1][2] = NameDoe9 /\ uploaded_file.rows[2][2] = Name13Smith
    /\ Len(detailed_df) = 1 /\ detailed_df[1].idx = 1
    /\ Cell(summary_df, TotalRow, "Grade 9") = 1
    /\ Cell(summary_df, TotalRow, "Total") = 1

(***************************************************************************)
(* Properties of the Two-Week Comparison                                   *)
(***************************************************************************)
\* both periods gave a summary in all-grades mode and the comparison was made
ComparedAllGrades ==
    /\ pc = "done" /\ Len(runs) >= 2 /\ selected_grade = All
    /\ ~IsEmpty(runs[1].summary) /\ ~IsEmpty(runs[2].summary)

\* the sixteen column keys: for Grade 6..12 and then Total, the key of the
\* first period followed by the key of the second
SixteenKeys(label_a, label_b) ==
    [i \in 1..16 |->
        <<IF i <= 14 THEN GradeHeader(5 + (i + 1) \div 2) ELSE "Total",
          IF i % 2 = 1 THEN label_a ELSE label_b>>]

\* C11: for every pair of period labels and two non-empty all-grades
\* summaries, the comparison has the six rows and sixteen count columns,
\* (header, label_a) next to (header, label_b) for Grade 6..12 and Total;
\* every (header, label_a) cell is the first summary's count and every
\* (header, label_b) cell the second summary's count.
C11_SixteenJuxtaposedColumns ==
    ComparedAllGrades =>
        /\ comparison_df.index = CATEGORY_LABELS_ORDERED
        /\ comparison_df.columns = SixteenKeys(week1_label, week2_label)
        /\ \A r \in 1..Len(comparison_df.index), i \in 1..Len(comparison_df.columns) :
              comparison_df.cells[r][i] =
                  Cell(IF i % 2 = 1 THEN runs[1].summary ELSE runs[2].summary,
                       comparison_df.index[r], comparison_df.columns[i][1])

\* C11 with the labels required to differ: what the code does deliver
C11_DistinctLabelsJuxtaposed ==
    (ComparedAllGrades /\ week1_label # week2_label) =>
        /\ comparison_df.index = CATEGORY_LABELS_ORDERED
        /\ comparison_df.columns = SixteenKeys(week1_label, week2_label)
        /\ \A r \in 1..6, i \in 1..16 :
              comparison_df.cells[r][i] =
                  Cell(IF i % 2 = 1 THEN runs[1].summary ELSE runs[2].summary,
                       CATEGORY_LABELS_ORDERED[r], SixteenKeys(week1_label, week2_label)[i][1])

\* with one label typed for both periods the table has eight count columns
\* and every cell is the second period's count
C11_EqualLabelsCollapse ==
    (ComparedAllGrades /\ week1_label = week2_label) =>
        /\ Len(comparison_df.columns) = 8
        /\ \A r \in 1..6, c \in 1..8 :
              comparison_df.cells[r][c] =
                  Cell(runs[2].summary, comparison_df.index[r], comparison_df.columns[c][1])

C11_Witness ==
    /\ ComparedAllGrades /\ week1_label = week2_label
    /\ Cell(runs[1].summary, TotalRow, "Total") = 2
    /\ Cell(runs[2].summary, TotalRow, "Total") = 1

(***************************************************************************)
(* Properties of the report store                                          *)
(***************************************************************************)
\* the rows of a table that belong to report id
RowsOfReport(table, id) == SelectSeq(table, LAMBDA row : row.summary_report_id = id)

\* C12: a save_report call that fails after it inserted its summary_reports
\* row leaves no row of that report in any of the three tables.
C12_FailedSaveLeavesNoRow ==
    \A s \in Sessions :
        saves[s].pc = "raised" =>
            /\ \A i \in 1..Len(summary_reports) :
                  summary_reports[i].id # saves[s].summary_report_id
            /\ RowsOfReport(summary_report_details, saves[s].summary_report_id) = <<>>
            /\ RowsOfReport(detailed_reports, saves[s].summary_report_id) = <<>>

\* a detail record as a row of its table's columns (the index label is no column)
DetailColumnsOf(record) == [f \in (DOMAIN record) \ {"idx"} |-> record[f]]

\* the report of session s is the one the View Saved Reports page loaded
LoadedReportOf(s) ==
    /\ saves[s].pc = "returned"
    /\ listed.shown /\ loaded.found
    /\ listed.selected = saves[s].summary_report_id

\* C13: loading a saved report by the returned id gives a summary with the
\* columns and counts of the summary saved, and the detail records saved.
C13_SaveLoadRoundTrip ==
    \A s \in Sessions :
        LoadedReportOf(s) =>
            /\ loaded.summary.columns = saves[s].args.summary_df.columns
            /\ loaded.summary.index = saves[s].args.summary_df.index
            /\ loaded.summary.cells = saves[s].args.summary_df.cells
            /\ Len(loaded.detail) = Len(saves[s].args.detailed_df)
            /\ \A k \in 1..Len(loaded.detail) :
                  \A f \in DOMAIN DetailColumnsOf(saves[s].args.detailed_df[k]) :
                      /\ f \in DOMAIN loaded.detail[k]
                      /\ loaded.detail[k][f] = saves[s].args.detailed_df[k][f]

\* what a load does return: every count column the saved summary had, under
\* its database-side name, with the saved counts; and the six stored fields
\* of every detail record
C13_StoredCountsComeBack ==
    \A s \in Sessions :
        LoadedReportOf(s) =>
            LET saved == saves[s].args.summary_df
            IN  /\ loaded.summary.index = saved.index
                /\ \A c \in 1..Len(saved.columns), r \in 1..Len(saved.index) :
                      \E i \in 1..Len(loaded.summary.columns) :
                          /\ loaded.summary.columns[i] =
                                load_column_name(save_column_name(saved.columns[c]))
                          /\ loaded.summary.cells[r][i] = saved.cells[r][c]
                /\ Len(loaded.detail) = Len(saves[s].args.detailed_df)
                /\ \A k \in 1..Len(loaded.detail) :
                      \A f \in DOMAIN loaded.detail[k] :
                          loaded.detail[k][f] = saves[s].args.detailed_df[k][f]

\* the sessions whose save_report call has inserted its summary_reports row
Inserted == {s \in Sessions : saves[s].pc # "idle"}

\* seq is the first rows of whole, in order
IsPrefix(seq, whole) == Len(seq) <= Len(whole) /\ seq = SubSeq(whole, 1, Len(seq))

\* C14: under any interleaving of save_report calls the identifiers given
\* out are pairwise different and never given twice, every row of
\* summary_report_details and detailed_reports carries the identifier of
\* the call that wrote it, and a load returns only rows of the report asked.
C14_IdentifiersNeverShared ==
    /\ \A s \in Inserted, t \in Inserted :
          s # t => saves[s].summary_report_id # saves[t].summary_report_id
    /\ \A i \in 1..Len(summary_reports), j \in 1..Len(summary_reports) :
          i # j => summary_reports[i].id # summary_reports[j].id
    /\ \A i \in 1..Len(summary_reports) :
          /\ summary_reports[i].id \in 1..sqlite_sequence
          /\ \E s \in Inserted :
                /\ saves[s].summary_report_id = summary_reports[i].id
                /\ summary_reports[i].week_label = saves[s].args.week_label
    /\ \A s \in Inserted :
          LET id == saves[s].summary_report_id
              wrote_summary == summary_rows_to_save(saves[s].args.summary_df, id)
              wrote_detail == detail_rows_to_save(saves[s].args.detailed_df, id)
          IN  /\ IsPrefix(RowsOfReport(summary_report_details, id), wrote_summary)
              /\ IsPrefix(RowsOfReport(detailed_reports, id), wrote_detail)
              /\ saves[s].pc \in {"summary_saved", "detail_saved", "returned"} =>
                    RowsOfReport(summary_report_details, id) = wrote_summary
              /\ saves[s].pc \in {"detail_saved", "returned"} =>
                    RowsOfReport(detailed_reports, id) = wrote_detail
    /\ \A i \in 1..Len(summary_report_details) :
          \E s \in Inserted : summary_report_details[i].summary_report_id =
                                 saves[s].summary_report_id
    /\ \A i \in 1..Len(detailed_reports) :
          \E s \in Inserted : detailed_reports[i].summary_report_id =
                                 saves[s].summary_report_id
    /\ \A s \in Inserted :
          (listed.shown /\ loaded.found /\ listed.selected = saves[s].summary_report_id) =>
              /\ IsPrefix(loaded.summary.index, saves[s].args.summary_df.index)
              /\ Len(loaded.detail) <= Len(saves[s].args.detailed_df)
              /\ \A k \in 1..Len(loaded.detail) :
                    loaded.detail[k].last_name = saves[s].args.detailed_df[k].last_name

\* two calls ran interleaved (the second call's rows were written before
\* the first call's), both returned, and the first report was loaded
C14_Witness ==
    /\ saves[1].pc = "returned" /\ saves[2].pc = "returned"
    /\ saves[1].summary_report_id = 1 /\ saves[2].summary_report_id = 2
    /\ Len(summary_report_details) = 12
    /\ summary_report_details[1].summary_report_id = 2
    /\ summary_report_details[12].summary_report_id = 1
    /\ Len(detailed_reports) = 3
    /\ detailed_reports[1].summary_report_id = 2
    /\ listed.shown /\ loaded.found /\ listed.selected = 1
    /\ Len(loaded.detail) = 2

\* C15: get_saved_reports_metadata returns exactly the saved reports that
\* match the filters given, newest first: a report saved after another
\* (it has the larger id) stands before it.
C15_ListedNewestFirst ==
    listed.shown =>
        /\ SeqToSet(listed.rows) =
              {summary_reports[i] : i \in {j \in 1..Len(summary_reports) :
                  matches_filters(summary_reports[j], listed.report_date,
                                  listed.selected_week)}}
        /\ \A i \in 1..Len(listed.rows), j \in 1..Len(listed.rows) :
              i < j => listed.rows[i].id > listed.rows[j].id

\* what the listing does deliver: exactly the matching reports, each once,
\* and a report with a later timestamp (in whole seconds) before one with
\* an earlier timestamp
C15_ListedByTimestamp ==
    listed.shown =>
        /\ SeqToSet(listed.rows) =
              {summary_reports[i] : i \in {j \in 1..Len(summary_reports) :
                  (listed.report_date # NoDate =>
                      summary_reports[j].report_date = strftime(listed.report_date))
                  /\ (listed.selected_week # "All" =>
                      summary_reports[j].selected_week = listed.selected_week)}}
        /\ Len(listed.rows) = Cardinality(SeqToSet(listed.rows))
        /\ \A i \in 1..Len(listed.rows), j \in 1..Len(listed.rows) :
              listed.rows[i].timestamp > listed.rows[j].timestamp => i < j

(***************************************************************************)
(* Properties of the rejections and the empty outcomes                     *)
(***************************************************************************)
\* the required identity columns the uploaded table lacks, in the order
\* 'First name', 'Last name' (an exact, case-sensitive comparison)
AbsentIdentityColumns ==
    SelectSeq(<<FIRST_NAME_COL, LAST_NAME_COL>>,
              LAMBDA name : \A j \in 1..Len(uploaded_file.columns) :
                                uploaded_file.columns[j] # name)

\* C16: a table that lacks 'First name' or 'Last name' (exact names) is
\* rejected: one error naming exactly the absent columns, an empty summary
\* and an empty detail table, nothing reported about lab columns and the
\* table left as it was read.
C16_MissingIdentityColumnsRejected ==
    (pc = "done" /\ AbsentIdentityColumns # <<>>) =>
        /\ Len(messages) = 1
        /\ messages[1].level = "error"
        /\ messages[1].columns = AbsentIdentityColumns
        /\ messages[1] # ErrorNoLabColumns
        /\ summary_df = EmptyFrame
        /\ detailed_df = EmptyDetail
        /\ df = uploaded_file

\* 'first name' is there in lower case only: 'First name' is reported absent
C16_Witness ==
    /\ pc = "done"
    /\ uploaded_file.columns = LowerFirstNameTables.columns
    /\ Len(uploaded_file.rows) = 1
    /\ messages = <<ErrorMissingColumns(<<FIRST_NAME_COL>>)>>
    /\ df = uploaded_file

\* C17: a table with both identity columns and no lab column aborts the
\* pipeline: the no-lab-columns error is reported, the summary and the
\* detail table are empty; a completion percentage is only ever computed
\* from a lab-column count of at least 1.
C17_NoLabColumnsAborts ==
    (pc = "done" /\ AbsentIdentityColumns = <<>>) =>
        /\ LabPositions(uploaded_file) = {} =>
              /\ messages = <<ErrorNoLabColumns>>
              /\ summary_df = EmptyFrame
              /\ detailed_df = EmptyDetail
              /\ ~HasColumn(df, CalculatedCompletionCol)
        /\ HasColumn(df, CalculatedCompletionCol) =>
              Cardinality(LabPositions(uploaded_file)) >= 1
        /\ \A k \in 1..Len(detailed_df) : detailed_df[k].total_programs >= 1

C17_Witness ==
    /\ pc = "done"
    /\ uploaded_file.columns = NoLabTables.columns
    /\ Len(uploaded_file.rows) = 2
    /\ messages = <<ErrorNoLabColumns>>
    /\ summary_df = EmptyFrame

\* the table was accepted (identity and lab columns are there) and no row
\* passes the grade-range, grade and minimum-percentage filters
NoRowSurvives ==
    /\ pc = "done"
    /\ AbsentIdentityColumns = <<>>
    /\ LabPositions(uploaded_file) # {}
    /\ Retained(RowFacts) = {}

\* C18: when no row survives the filters the call does not fail: it gives
\* the 'no matching students' warning and returns an empty summary and an
\* empty detail table, never a table of zeros.
C18_NoSurvivorWarns ==
    NoRowSurvives =>
        /\ messages = <<WarningNoStudents>>
        /\ summary_df = EmptyFrame
        /\ detailed_df = EmptyDetail

\* what the code delivers: empty tables whenever no row survives, and the
\* warning exactly when the table has rows; a table without rows ends
\* without any message
C18_WarnsUnlessTableHasNoRows ==
    NoRowSurvives =>
        /\ summary_df = EmptyFrame
        /\ detailed_df = EmptyDetail
        /\ messages = IF uploaded_file.rows = <<>> THEN <<>> ELSE <<WarningNoStudents>>

(***************************************************************************)
(* Properties of the comparison of an empty period                         *)
(***************************************************************************)
\* the comparison page has processed both files
BothFilesProcessed == pc = "done" /\ Len(runs) >= 2

\* one of the two period summaries the comparison was made of is empty
APeriodIsEmpty ==
    BothFilesProcessed /\ (IsEmpty(runs[1].summary) \/ IsEmpty(runs[2].summary))

EachFileProcessedTwice == pc = "done" /\ Len(runs) = 4

\* C20: process_single_file_current_week run a second time with the same
\* filters on the table the first run already processed (the same object,
\* now carrying the Calculated_Completion and Grade columns) returns the
\* same summary table (rows, columns, order, counts) and the same detail
\* table as the first run, and leaves the table as the first run left it
C20_SecondRunIdentical ==
    EachFileProcessedTwice =>
        \A f \in 1..2 :
            /\ runs[f + 2].file = runs[f].file
            /\ runs[f + 2].summary = runs[f].summary
            /\ runs[f + 2].detail = runs[f].detail
            /\ process_single_file_current_week(runs[f].given, selected_grade,
                   min_completion_percentage).df = runs[f + 2].given
            /\ (IF f = 1 THEN df1 ELSE df2) = runs[f + 2].given

\* a table with counted students was processed twice, the second time as
\* the first run left it (with two columns more)
C20_Witness ==
    /\ EachFileProcessedTwice
    /\ runs[3].given # runs[1].given
    /\ Len(runs[3].given.columns) = Len(runs[1].given.columns) + 2
    /\ ~IsEmpty(runs[1].summary)
    /\ runs[1].detail # EmptyDetail
    /\ runs[3].summary = runs[1].summary

(***************************************************************************)
(* Properties of what report generation leaves of its input                *)
(***************************************************************************)
\* C21: process_single_file_current_week leaves the caller's table as it
\* was given: after the Single Week page has processed an uploaded table,
\* the table holds the columns and the cell values it was read with,
\* whatever the outcome of the call
C21_InputTableUnchanged ==
    (pc = "done" /\ uploaded_file # NoTable) => df = uploaded_file

\* the table is left as given exactly when the call stopped before STEP 3
\* (identity columns missing, no lab columns, no rows); otherwise it is
\* left with the Calculated_Completion and Grade columns appended and its
\* other cells as given
C21_OnlyTwoColumnsAppended ==
    (pc = "done" /\ uploaded_file # NoTable) =>
        IF summary_df = EmptyFrame /\ messages # <<WarningNoStudents>>
        THEN df = uploaded_file
        ELSE /\ df.columns = uploaded_file.columns \o <<CalculatedCompletionCol, GradeCol>>
             /\ Len(df.rows) = Len(uploaded_file.rows)
             /\ \A i \in 1..Len(df.rows) :
                    SubSeq(df.rows[i], 1, Len(uploaded_file.columns)) = uploaded_file.rows[i]

(***************************************************************************)
(* Properties of the comparison under a single-grade filter                *)
(***************************************************************************)
\* both files were processed under a single-grade filter and each period
\* has students of that grade left by the filters
SingleGradeBothPeriodsCounted ==
    /\ BothFilesProcessed
    /\ selected_grade # All
    /\ ~IsEmpty(runs[1].summary) /\ ~IsEmpty(runs[2].summary)

\* C22: under a single-grade filter with matching students in both
\* periods, process_two_files_comparison returns no comparison table,
\* neither one of sixteen columns nor one restricted to that grade: it
\* raises (a header of the loop of lines 257-263 is no column of a
\* single-grade summary), the page reports the error, announces no
\* comparison and makes no detail run
C22_SingleGradeComparisonRaises ==
    SingleGradeBothPeriodsCounted =>
        /\ comparison_df = EmptyFrame
        /\ messages[Len(messages)] = ErrorOccurred
        /\ ComparisonProcessed \notin SeqToSet(messages)
        /\ Len(runs) = 2
        /\ detailed_df1 = EmptyDetail /\ detailed_df2 = EmptyDetail

\* grade 9 is selected, both periods count a student of grade 9, and the
\* page ended with the error
C22_Witness ==
    /\ SingleGradeBothPeriodsCounted
    /\ selected_grade = 9
    /\ \A f \in 1..2 :
          /\ runs[f].summary.columns = <<"Grade 9">>
          /\ \E r \in 1..Len(runs[f].summary.index) : runs[f].summary.cells[r][1] > 0
    /\ ErrorOccurred \in SeqToSet(messages)

(***************************************************************************)
(* Properties of the detail table                                          *)
(***************************************************************************)
\* a detail table was returned for the uploaded table
DetailReturned == pc = "done" /\ detailed_df # EmptyDetail

\* the column of the summary that counts every retained student
CountColumn ==
    IF selected_grade = All THEN "Total" ELSE "Grade " \o ToString(selected_grade)

\* the rows of the uploaded table the filters retain, from the table itself
RetainedRows ==
    LET own == calculate_program_completion(uploaded_file).detail
        extracted == extract_grade(Column(uploaded_file, LAST_NAME_COL))
        grade(i) == IF i \in DOMAIN extracted THEN extracted[i] ELSE NaN
    IN  {i \in 1..Len(uploaded_file.rows) :
            /\ grade_in_range(grade(i))
            /\ (selected_grade # All => grade(i) = selected_grade)
            /\ own[i].completion_percentage >= 10 * min_completion_percentage}

\* the detail records of one band
DetailOfBand(band) == {k \in 1..Len(detailed_df) : detailed_df[k].category = band}

\* C23: the detail table has exactly one record per retained input row, in
\* source order; each record carries its row's own names, completed count,
\* total count and percentage; its Category is the band of the summary in
\* which the student is counted (every band's count is the number of
\* detail records of that band); so the number of records is the 'Total No
\* Of Students' count of the Total column, or of the single grade column
C23_DetailMatchesSummary ==
    DetailReturned =>
        LET own == calculate_program_completion(uploaded_file).detail
        IN  /\ {detailed_df[k].idx : k \in 1..Len(detailed_df)} = RetainedRows
            /\ \A k \in 1..(Len(detailed_df) - 1) : detailed_df[k].idx < detailed_df[k + 1].idx
            /\ \A k \in 1..Len(detailed_df) :
                  LET i == detailed_df[k].idx
                  IN  /\ detailed_df[k].first_name
                            = uploaded_file.rows[i][ColumnIndex(uploaded_file, FIRST_NAME_COL)]
                      /\ detailed_df[k].last_name
                            = uploaded_file.rows[i][ColumnIndex(uploaded_file, LAST_NAME_COL)]
                      /\ detailed_df[k].completed_programs = own[i].completed_programs
                      /\ detailed_df[k].total_programs = own[i].total_programs
                      /\ detailed_df[k].completion_percentage = own[i].completion_percentage
                      /\ detailed_df[k].category = own[i].category
            /\ \A b \in 1..Len(BandLabels) :
                  Cell(summary_df, BandLabels[b], CountColumn)
                      = Cardinality(DetailOfBand(BandLabels[b]))
            /\ Cell(summary_df, TotalRow, CountColumn) = Len(detailed_df)

\* two students of different bands are retained and a third row is not:
\* the detail table has the two, in table order
C23_Witness ==
    /\ DetailReturned
    /\ Len(detailed_df) = 2
    /\ detailed_df[1].category # detailed_df[2].category
    /\ Cell(summary_df, TotalRow, CountColumn) = 2

(***************************************************************************)
(* Properties of the three categorisations                                 *)
(***************************************************************************)
\* the percentages 75, 55 and 35
InnerBoundaries == {750, 550, 350}

\* C24: process_excel.categorize_completion gives every percentage the band
\* that categorize_completion_percentage gives it, except exactly 75, 55
\* and 35, which it puts in the higher band ('75-90%', '55-75%', '35-55%')
\* and the canonical one in the lower; both put exactly 90 in the 75-to-90
\* band; calculate_all.py puts exactly 90 in its top band
C24_BoundariesDiffer ==
    /\ (call.fn = "categorize_completion" /\ ret.done) =>
          /\ (call.p \notin InnerBoundaries
                 => ret.label = categorize_completion_percentage(call.p))
          /\ (call.p \in InnerBoundaries
                 => ret.label # categorize_completion_percentage(call.p))
          /\ (call.p = 750 => /\ ret.code = "75-90%"
                              /\ categorize_completion_percentage(call.p) = From55To75)
          /\ (call.p = 550 => /\ ret.code = "55-75%"
                              /\ categorize_completion_percentage(call.p) = From35To55)
          /\ (call.p = 350 => /\ ret.code = "35-55%"
                              /\ categorize_completion_percentage(call.p) = LessThan35)
          /\ (call.p = 900 => /\ ret.code = "75-90%"
                              /\ categorize_completion_percentage(call.p) = From75To90)
    /\ (call.fn = "calculate_all" /\ ret.done) =>
          /\ (call.p = 900 => ret.code = "90-100%")
          /\ (ret.code = "90-100%" <=> call.p >= 900)

\* process_excel has categorized exactly 75 into '75-90%'
C24_Witness ==
    call.fn = "categorize_completion" /\ ret.done /\ call.p = 750 /\ ret.label = From75To90

(***************************************************************************)
(* Properties of the LMSDatabase store                                     *)
(***************************************************************************)
\* the labels saved so far
SavedLabels == {lms_saved[k].week_label : k \in 1..Len(lms_saved)}

\* the table of the most recent save_report call for a label
LastSaved(week_label) ==
    lms_saved[CHOOSE k \in 1..Len(lms_saved) :
                 /\ lms_saved[k].week_label = week_label
                 /\ \A m \in (k + 1)..Len(lms_saved) : lms_saved[m].week_label # week_label
             ].report_df

\* the store holds one row per saved label and none for any other
OneReportPerLabel ==
    /\ \A i \in 1..Len(lms_reports), j \in 1..Len(lms_reports) :
          lms_reports[i].week_label = lms_reports[j].week_label => i = j
    /\ {lms_reports[i].week_label : i \in 1..Len(lms_reports)} = SavedLabels

\* get_previous_reports lists every saved label exactly once
ListedOnce ==
    lms_got.fn = "get_previous_reports" =>
        /\ SeqToSet(lms_got.labels) = SavedLabels
        /\ \A i \in 1..Len(lms_got.labels), j \in 1..Len(lms_got.labels) :
              lms_got.labels[i] = lms_got.labels[j] => i = j

\* C25: after any sequence of save_report calls the store holds at most one
\* report per week_label; get_report(label) returns the table of the most
\* recent save for that label and None for a label never saved;
\* get_previous_reports lists every saved label exactly once
C25_LastWriterWins ==
    /\ OneReportPerLabel
    /\ ListedOnce
    /\ lms_got.fn = "get_report" =>
          IF lms_got.week_label \in SavedLabels
          THEN lms_got.found /\ lms_got.report = LastSaved(lms_got.week_label)
          ELSE ~lms_got.found

\* what get_report does return: the table read back from the JSON text of
\* the most recent save for the label, which is the saved table whenever
\* that table has a row, and a table with no column when it has none
C25_LastWriterWinsAsJson ==
    /\ OneReportPerLabel
    /\ ListedOnce
    /\ lms_got.fn = "get_report" =>
          IF lms_got.week_label \in SavedLabels
          THEN /\ lms_got.found
               /\ lms_got.report = read_json(to_json(LastSaved(lms_got.week_label)))
               /\ (LastSaved(lms_got.week_label).rows # <<>>
                      => lms_got.report = LastSaved(lms_got.week_label))
               /\ (LastSaved(lms_got.week_label).rows = <<>>
                      => lms_got.report = NoTable)
          ELSE ~lms_got.found

\* a label was saved twice with different tables and then read
C25_Witness ==
    /\ lms_got.fn = "get_report" /\ lms_got.found
    /\ \E k \in 1..Len(lms_saved), m \in 1..Len(lms_saved) :
          /\ k < m
          /\ lms_saved[k].week_label = lms_got.week_label
          /\ lms_saved[m].week_label = lms_got.week_label
          /\ lms_saved[k].report_df # lms_saved[m].report_df
          /\ lms_got.report = lms_saved[m].report_df

====
